---- MODULE Spec2Model ----
(***************************************************************************)
(* MailSense: the per-user index lifecycle (RAGBackgroundService), the     *)
(* HTTP handlers that drive it, the query cache in front of the vector     *)
(* store, and the mail ingestion into the relational store.                *)
(***************************************************************************)
EXTENDS Integers, Sequences, FiniteSets, TLC

\* ------------------------------------------------------------------ bounds
Users == {"u1", "u2"}
Handlers == {"h1"}
\* the users whose POST /rag/ask requests are followed
Askers == {"u1"}
NoUser == "none"

\* RAGBackgroundService(max_retries=3)
max_retries == 3
retry_delay == 30

\* RAGStatus
IDLE == "idle"
INDEXING == "indexing"
READY == "ready"
ERROR == "error"
RATE_LIMITED == "rate_limited"
RAGStatus == {IDLE, INDEXING, READY, ERROR, RATE_LIMITED}

\* InboxOnlyRAG.rate_limit_cooldown
rate_limit_cooldown == 7200
\* history[-20:]
HistoryCap == 20
NoTime == -1
\* the /ask turns each user's history is followed for
MaxHistory == 2
NoResp == [user |-> NoUser, seen |-> "none", retrieval |-> FALSE, llm |-> "none",
           body |-> [status |-> "none"]]

\* the concurrent runs of index_user_emails and of hybrid_search followed
Indexers == {"i1"}
\* the run of index_user_emails the POST /email/rag/index handler makes in its own thread
InlineIndexers == {"i2"}
Searchers == {"s1", "s2"}
\* TTLCache(ttl_seconds=300)
ttl_seconds == 300
\* the clock advances in steps of TickSeconds, MaxTicks times at most
TickSeconds == 150
MaxTicks == 3
\* rows the emails table is followed up to
MaxRows == 2
\* the same where the rows' labels vary
MaxLabelRows == 3
\* labelIds of messages fetch_user_emails saves, and the labels of other rows
\* (none for the rows of POST /email/sync)
FetchedLabels == {<<"INBOX">>, <<"UNREAD", "INBOX">>}
UnfetchedLabels == {<<>>, <<"SENT">>, <<"OLD_INBOX", "SENT">>}
\* the queries asked: text and sender_filter, as character sequences
Queries == {<<"k">>}
NoFilter == <<"N", "o", "n", "e">>

\* the threads that call the TTLCache, the keys and the values they use
TtlThreads == {"t1", "t2"}
TtlKeys == {<<"k", "1">>, <<"k", "2">>}
TtlVals == {{1}, {1, 2}}
NoLocals == [value |-> {}, inserted_at |-> 0, keys |-> {}]
NoReturn == [op |-> "none", key |-> <<>>, hit |-> FALSE, value |-> {}, err |-> "none", at |-> 0]

\* hybrid_search: the emails indexed, the chunks per email and in the
\* collection, the top_k values asked for, the sender filters
EmailIds == {1, 2, 3}
MaxChunksPerEmail == 2
MaxChunks == 3
TopKs == {1, 3}
\* unique_results[:50]
FilterCap == 50
\* min(300, collection.count())
FilterPool == 300
\* a chunk's distance from the query and the share of the query's keywords
\* found in it, both in hundredths: a near chunk with no keyword, a far one
\* with all of them (which scores higher)
ChunkKinds == {<<20, 0>>, <<80, 100>>}
Timestamps == {1, 2}
AlFilter == <<"a", "l">>
Filters == {NoFilter, AlFilter}
NoSearch == [top_k |-> 0, filter |-> <<>>, hit |-> FALSE, result |-> <<>>, scored |-> {},
             recalled |-> {}]

\* answer_question: the questions asked, as character sequences. QPlain has
\* a list word and no sender; QLatestFrom is "latest email from al";
\* QFollowUp has a reference word ("that") and "last", and no sender
QPlain == <<"k">>
QLatestFrom == <<"k", "1">>
QFollowUp == <<"k", "2">>
Questions == {QPlain, QLatestFrom, QFollowUp}
\* top_k = 50 / 30 / 15
TopKSender == 50
TopKList == 30
TopKDefault == 15
\* the clock's long steps, for the rate-limit cooldown
CoolTickSeconds == 3600
MaxCoolTicks == 2
NoAnswer == [question |-> <<>>, search_question |-> <<>>, limited |-> FALSE, calls |-> {},
             status |-> "none", emails_found |-> 0, sources |-> <<>>, retrieved |-> <<>>]
\* InboxOnlyRAG.max_context_tokens, chars_per_token
max_context_tokens == 4000
chars_per_token == 4
\* len("...[truncated]")
TruncatedMarkerLen == 14
\* len("\n\n"), the separator of the joined context
SeparatorLen == 2
\* lengths of the blocks built for the emails of a context
BlockLens == {200, 1000, 7900, 8000, 15799, 15800, 15801}
\* blocks in a context
MaxBlocks == 3
\* InboxOnlyRAG.chunk_size
chunk_size == 800
\* lengths of the text built for an email, around the multiples of chunk_size
TextLens == {0, 1, 800, 801, 1600, 1601}
\* Email.ids the vector collection is followed for
VecEmailIds == {1, 2}
\* Email.date: a day, or <<>> for None
VecDates == {<<>>, <<1>>}
\* len("FROM: " + "\nSUBJECT: " + "\nDATE: " + "\n\n")
TextLabelsLen == 25
\* stored messages: the lengths of sender, subject and body, and the date
MessageRows == [sender : {0, 30}, subject : {0, 50}, date : VecDates, body : {0, 771, 772, 800}]
\* the sender, subject, read flag and the words of the text that set
\* is_urgent, has_deadline and deadline_date, as one value per email
VecAttrs == {"plain", "urgent"}
\* threadpool threads running POST /rag/ask at the same time
AskThreads == {"a1", "a2"}
NoStash == [t |-> NoTime, ans |-> NoAnswer]
\* seconds in a day (timedelta.days)
DaySeconds == 86400
\* the words of a message's text that the indexer looks for
UrgencyWords == {"urgent", "asap", "immediately", "critical"}
\* the date written after "deadline:" in the text, as seconds from the
\* midnight before the clock's start; <<>> where the text has none
DeadlineDates == {<<>>, <<0 - DaySeconds>>, <<0>>, <<DaySeconds>>, <<10 * DaySeconds>>}
DeadlineMsgs == [words : {{}, {"urgent"}, {"asap"}, {"critical"}}, date : DeadlineDates]
NoDeadlineMsg == [stage |-> "none", msg |-> [words |-> {}, date |-> <<>>],
                  meta |-> [is_urgent |-> FALSE, deadline_date |-> <<>>],
                  shown |-> [urgent |-> "none", deadline |-> [kind |-> "none", val |-> 0]],
                  indexed_at |-> 0, at |-> 0]
\* before any collection name was computed
NoNameCall == [stage |-> "none", a |-> <<>>, b |-> <<>>, na |-> <<>>, nb |-> <<>>, ka |-> {}, kb |-> {}]

\* before the first sender_matches call
NoMatchCall == [sender |-> [name |-> <<>>, user |-> <<>>], term |-> <<>>, result |-> FALSE]
\* a thread's local `history`: stored = it is the list object the dict holds
\* a list of turns is followed as its length and its last two entries
EmptyList == [len |-> 0, tail |-> <<>>]
NoHistory == [stored |-> FALSE, val |-> EmptyList]
\* what answer_question hands back to rag_ask, or that it raised
AnswerStatuses == {"success", "no_results", "rate_limited", "error", "raise"}

\* who runs fetch_user_emails: a user's poller thread (main.py) and the
\* background task of POST /email/sync/background (email.py)
Ingesters == {"poller", "task"}
\* fetch_user_emails(db, user_id, max_results=100)
max_results == 100
\* provider message ids, and the day of each message's Date header
Mids == {"ma", "mb"}
MsgDay(m) == IF m = "ma" THEN 1 ELSE 2
NoMsg == "none"

\* What one run of index_user_emails can do: raise, return without adding a
\* chunk (no INBOX rows, or all already indexed), or add chunks and return.
IndexOutcomes == {"raise", "nonew", "added"}

VARIABLES
    status,         \* _status: user -> RAGStatus (IDLE where the dict has no key)
    statusKeys,     \* the keys of _status in insertion order
    progress,       \* _progress[user]["attempt"], 0 where the key is absent
    pending_users,  \* _pending_users
    stop_event,     \* _stop_event
    thread_alive,   \* _thread is set and is_alive()
    wpc,            \* where the worker thread is in _background_loop
    pendingL,       \* local `pending`, the part not yet iterated
    knownL,         \* local `known_users`, the part not yet iterated
    cur,            \* user_email of the running _index_user_with_retry
    attempt,        \* its loop variable
    retPc,          \* which for-loop called it
    cycleDrained,   \* the users the current cycle took from _pending_users
    cyclePasses,    \* user -> calls of _index_user_with_retry that started an attempt in the current cycle
    inline,         \* handler -> user whose POST /email/rag/index is running, or NoUser
    hasChunks,      \* user -> the user's vector collection holds at least one chunk
    now,            \* time.time(), in seconds
    last_rate_limit,\* rag_system.last_rate_limit, NoTime for None
    histLen,        \* user -> len(conversation_histories[user])
    resp,           \* the body of the latest POST /rag/ask response, with what the handler did
    emails,         \* the emails table: row i has Email.id = i
    coll,           \* collection name -> the Email.ids whose chunks the collection holds
    query_cache,    \* TTLCache._store: cache key -> [value, inserted_at]
    ipc, iuser, iall, inew,   \* per run of index_user_emails: position, user, all_emails, new_emails
    qpc, quser, qkey, qres, qhit,   \* per hybrid_search call: position, user, cache_key, result, served from cache
    qseen,          \* per hybrid_search call: what index runs had returned as added when the call began
    committed,      \* user -> the Email.ids added by index runs that have returned success
    provider,       \* user -> the provider message ids in the user's mailbox with label INBOX
    gpc, guser, gleft, gcur, gsaved,  \* per run of fetch_user_emails: position, user_id, messages not yet visited, msg, saved_count
    lastCall,       \* the latest lifecycle call: "none", "start", "stopping" (stop() is in its join), "stop"
    tpc, tkey, tloc,\* per thread inside a TTLCache method: position, key, locals
    tret,           \* per thread: what its latest TTLCache call returned or raised, and when
    lastSet,        \* key -> value and time of the latest set(key, .) since the latest clear()
    hchunks,        \* the chunks in the user's vector collection, with their metadata
    hcache,         \* query_cache as hybrid_search uses it: key -> [value, inserted_at], with the chunks recalled and scored for it
    ans,            \* the latest answer_question call: its inputs, the LLM calls it made, what it returned
    hret,           \* the latest hybrid_search call: its arguments, the list returned, the chunks recalled and scored for it
    apc, astash,    \* per /rag/ask thread inside answer_question's rate-limit branch: position, the clock value read and the result to return
    conversation_histories,  \* rag_router.conversation_histories: user -> the stored list, as its length and last two entries (empty also where the key is absent)
    histKeys,       \* the keys of conversation_histories
    hpc, huser,     \* per /rag/ask thread in the answer branch: position, current_user_email
    hresult,        \* per /rag/ask thread: result["status"] of its latest answer_question call
    history,        \* per /rag/ask thread: its local `history`: still the stored list object, or an object the store no longer holds
    access_token,   \* user -> the users table holds an access_token for the user
    polling_threads,\* main.polling_threads: user -> the id of the thread stored for the user, 0 where there is no key
    pollers,        \* the live EmailPoller threads: id, user, and how their latest cycles ended
    pstarted,       \* lifespan has called _start_polling_threads
    backoff,        \* the local `backoff` of the running _index_user_with_retry call, 0 while it has none
    cn,             \* the latest pair of addresses whose collection names and cache-key strings were computed
    smret,          \* the latest sender_matches call: its arguments and what it returned
    dl,             \* the message followed through indexing and rendering: its text, its stored metadata, what the context shows for it
    tcret,          \* the latest trim_context_to_token_limit call: the lengths of context_parts, and the list returned
    vrows,          \* Email.id -> the lengths of the stored row's sender, subject and body and its date, <<>> where there is no row
    vstore          \* the chunks in a user's vector collection as collection.add stored them: id, document, metadata

lifeVars == <<status, statusKeys, progress, pending_users, stop_event, thread_alive,
              wpc, pendingL, knownL, cur, attempt, retPc, cycleDrained, cyclePasses>>
storeVars == <<inline, hasChunks>>
askVars == <<now, last_rate_limit, histLen, resp>>
cacheVars == <<emails, coll, query_cache, ipc, iuser, iall, inew,
               qpc, quser, qkey, qres, qhit, qseen, committed>>
ingestVars == <<provider, gpc, guser, gleft, gcur, gsaved>>
apiVars == <<lastCall>>
ttlVars == <<tpc, tkey, tloc, tret, lastSet>>
hybridVars == <<hchunks, hcache, hret>>
answerVars == <<ans>>
rateVars == <<apc, astash>>
histVars == <<conversation_histories, histKeys, hpc, huser, hresult, history>>
pollVars == <<access_token, polling_threads, pollers, pstarted>>
vecVars == <<vstore, vrows>>
retryVars == <<backoff>>
pureVars == <<smret, tcret, dl, cn>>
laterVars == <<rateVars, histVars, pollVars, vecVars, retryVars, pureVars>>
restVars == <<ttlVars, hybridVars, answerVars, laterVars>>
otherVars == <<cacheVars, ingestVars, apiVars, restVars>>
\* otherVars less the locals of _index_user_with_retry
nonRetryVars == <<cacheVars, ingestVars, apiVars, ttlVars, hybridVars, answerVars, rateVars,
                  histVars, pollVars, vecVars, pureVars>>
vars == <<lifeVars, storeVars, askVars, otherVars>>

\* ----------------------------------------------------------------- helpers
Range(s) == {s[i] : i \in 1..Len(s)}

\* every order list(set) can produce
Orders(S) == {s \in [1..Cardinality(S) -> S] : Range(s) = S}

\* the users' addresses, as character sequences
EmailAddr(u) == IF u = "u1" THEN <<"a", "@", "x", ".", "c">> ELSE <<"b", "@", "x", ".", "c">>

\* get_collection_name: "emails_inbox_" + the address with @ and . replaced by _
collection_name(u) ==
    <<"emails_inbox_">> \o [i \in 1..Len(EmailAddr(u)) |->
                               IF EmailAddr(u)[i] \in {"@", "."} THEN "_" ELSE EmailAddr(u)[i]]

\* the string hashed into cache_key: f"{user_email}:{query}:{sender_filter}"
cache_key(u, q, f) == EmailAddr(u) \o <<":">> \o q \o <<":">> \o f

\* _set_status
SetStatusKeys(u) == IF u \in Range(statusKeys) THEN statusKeys ELSE Append(statusKeys, u)

\* ------------------------------------------------------------------- Init
Init ==
    /\ status = [u \in Users |-> IDLE]
    /\ statusKeys = <<>>
    /\ progress = [u \in Users |-> 0]
    /\ pending_users = {}
    /\ stop_event = FALSE
    /\ thread_alive = FALSE
    /\ wpc = "dead"
    /\ pendingL = <<>>
    /\ knownL = <<>>
    /\ cur = NoUser
    /\ attempt = 0
    /\ retPc = "none"
    /\ cycleDrained = {}
    /\ cyclePasses = [u \in Users |-> 0]
    /\ inline = [h \in Handlers |-> NoUser]
    /\ hasChunks = [u \in Users |-> FALSE]
    /\ now = 0
    /\ last_rate_limit = NoTime
    /\ histLen = [u \in Users |-> 0]
    /\ resp = NoResp
    /\ emails = <<>>
    /\ coll = [n \in {collection_name(u) : u \in Users} |-> {}]
    /\ query_cache = <<>>
    /\ ipc = [i \in Indexers \cup InlineIndexers |-> "idle"]
    /\ iuser = [i \in Indexers \cup InlineIndexers |-> NoUser]
    /\ iall = [i \in Indexers \cup InlineIndexers |-> {}]
    /\ inew = [i \in Indexers \cup InlineIndexers |-> {}]
    /\ qpc = [h \in Searchers |-> "idle"]
    /\ quser = [h \in Searchers |-> NoUser]
    /\ qkey = [h \in Searchers |-> <<>>]
    /\ qres = [h \in Searchers |-> {}]
    /\ qhit = [h \in Searchers |-> FALSE]
    /\ qseen = [h \in Searchers |-> {}]
    /\ committed = [u \in Users |-> {}]
    /\ provider = [u \in Users |-> {}]
    /\ gpc = [g \in Ingesters |-> "idle"]
    /\ guser = [g \in Ingesters |-> NoUser]
    /\ gleft = [g \in Ingesters |-> {}]
    /\ gcur = [g \in Ingesters |-> NoMsg]
    /\ gsaved = [g \in Ingesters |-> 0]
    /\ lastCall = "none"
    /\ tpc = [t \in TtlThreads |-> "idle"]
    /\ tkey = [t \in TtlThreads |-> <<>>]
    /\ tloc = [t \in TtlThreads |-> NoLocals]
    /\ tret = [t \in TtlThreads |-> NoReturn]
    /\ lastSet = <<>>
    /\ hchunks = {}
    /\ hcache = <<>>
    /\ hret = NoSearch
    /\ ans = NoAnswer
    /\ apc = [t \in AskThreads |-> "idle"]
    /\ astash = [t \in AskThreads |-> NoStash]
    /\ conversation_histories = [u \in Users |-> EmptyList]
    /\ histKeys = {}
    /\ hpc = [t \in AskThreads |-> "idle"]
    /\ huser = [t \in AskThreads |-> NoUser]
    /\ hresult = [t \in AskThreads |-> "none"]
    /\ history = [t \in AskThreads |-> NoHistory]
    /\ access_token = [u \in Users |-> FALSE]
    /\ polling_threads = [u \in Users |-> 0]
    /\ pollers = {}
    /\ pstarted = FALSE
    /\ vstore = {}
    /\ vrows = [e \in VecEmailIds |-> <<>>]
    /\ backoff = 0
    /\ smret = NoMatchCall
    /\ tcret = [parts |-> <<>>, result |-> <<>>]
    /\ dl = NoDeadlineMsg
    /\ cn = NoNameCall

\* ------------------------------------------------- RAGBackgroundService API
\* start(): a live thread makes it return at once; otherwise the stop event
\* is cleared and a new thread begins _background_loop.
Start ==
    /\ lastCall # "stopping"
    /\ ~thread_alive
    /\ stop_event' = FALSE
    /\ thread_alive' = TRUE
    /\ wpc' = "startup"
    /\ pendingL' = <<>>
    /\ knownL' = <<>>
    /\ cur' = NoUser
    /\ attempt' = 0
    /\ retPc' = "none"
    /\ cycleDrained' = {}
    /\ cyclePasses' = [u \in Users |-> 0]
    /\ lastCall' = "start"
    /\ UNCHANGED <<status, statusKeys, progress, pending_users, storeVars, askVars,
                   cacheVars, ingestVars, restVars>>

\* start() while the thread is alive: "already running", return
StartWhileAlive ==
    /\ lastCall # "stopping"
    /\ thread_alive
    /\ lastCall' = "start"
    /\ UNCHANGED <<lifeVars, storeVars, askVars, cacheVars, ingestVars, restVars>>

\* stop(): sets the event, then joins the thread for 10 seconds at most
Stop ==
    /\ lastCall # "stopping"
    /\ stop_event' = TRUE
    /\ lastCall' = "stopping"
    /\ UNCHANGED <<status, statusKeys, progress, pending_users, thread_alive, wpc, pendingL,
                   knownL, cur, attempt, retPc, cycleDrained, cyclePasses, storeVars, askVars,
                   cacheVars, ingestVars, restVars>>

\* the join in stop() returns: the thread has ended, or the 10 seconds ran
\* out, which they can only while the thread is inside index_user_emails
\* (its sleeps are 3 seconds or end with the stop event)
StopJoined ==
    /\ lastCall = "stopping"
    /\ ~thread_alive \/ wpc = "r_run"
    /\ lastCall' = "stop"
    /\ UNCHANGED <<lifeVars, storeVars, askVars, cacheVars, ingestVars, restVars>>

\* mutant: the call queues every known user, not only the one it was given
RequestIndexAll(u) ==
    /\ pending_users' = Users
    /\ UNCHANGED <<status, statusKeys, progress, stop_event, thread_alive, wpc, pendingL,
                   knownL, cur, attempt, retPc, cycleDrained, cyclePasses, storeVars, askVars, otherVars>>

\* request_index(user_email)
RequestIndex(u) ==
    /\ pending_users' = pending_users \cup {u}
    /\ UNCHANGED <<status, statusKeys, progress, stop_event, thread_alive, wpc, pendingL,
                   knownL, cur, attempt, retPc, cycleDrained, cyclePasses, storeVars, askVars, otherVars>>

\* is_ready(user_email)
is_ready(u) == status[u] = READY

\* --------------------------------------------------------- _background_loop
\* time.sleep(3)
WorkerStartup ==
    /\ thread_alive /\ wpc = "startup"
    /\ wpc' = "loop"
    /\ UNCHANGED <<status, statusKeys, progress, pending_users, stop_event, thread_alive,
                   pendingL, knownL, cur, attempt, retPc, cycleDrained, cyclePasses, storeVars, askVars, otherVars>>

\* while not self._stop_event.is_set(): ... ; the thread ends when it is set
WorkerLoopTest ==
    /\ thread_alive /\ wpc = "loop"
    /\ IF stop_event
          THEN /\ wpc' = "dead"
               /\ thread_alive' = FALSE
          ELSE /\ wpc' = "drain"
               /\ UNCHANGED thread_alive
    /\ UNCHANGED <<status, statusKeys, progress, pending_users, stop_event,
                   pendingL, knownL, cur, attempt, retPc, cycleDrained, cyclePasses, storeVars, askVars, otherVars>>

\* with self._pending_lock: pending = list(...); self._pending_users.clear()
WorkerDrain ==
    /\ thread_alive /\ wpc = "drain"
    /\ \E s \in Orders(pending_users) : pendingL' = s
    /\ pending_users' = {}
    /\ cycleDrained' = pending_users
    /\ cyclePasses' = [u \in Users |-> 0]
    /\ wpc' = "pend_iter"
    /\ UNCHANGED <<status, statusKeys, progress, stop_event, thread_alive,
                   knownL, cur, attempt, retPc, storeVars, askVars, otherVars>>

\* entry of _index_user_with_retry(user_email) from one of the two for-loops
CallRetry(u, from) ==
    /\ cur' = u
    /\ attempt' = 1
    /\ retPc' = from
    /\ wpc' = "r_check"

\* for user_email in pending: if stop: break; self._index_user_with_retry(user_email)
WorkerPendIter ==
    /\ thread_alive /\ wpc = "pend_iter"
    /\ IF pendingL = <<>> \/ stop_event
          THEN /\ wpc' = "sweep_snap"
               /\ pendingL' = <<>>
               /\ UNCHANGED <<cur, attempt, retPc>>
          ELSE /\ CallRetry(Head(pendingL), "pend_iter")
               /\ pendingL' = Tail(pendingL)
    /\ UNCHANGED <<status, statusKeys, progress, pending_users, stop_event, thread_alive,
                   knownL, cycleDrained, cyclePasses, storeVars, askVars, otherVars>>

\* with self._lock: known_users = list(self._status.keys())
WorkerSweepSnap ==
    /\ thread_alive /\ wpc = "sweep_snap"
    /\ knownL' = statusKeys
    /\ wpc' = "sweep_iter"
    /\ UNCHANGED <<status, statusKeys, progress, pending_users, stop_event, thread_alive,
                   pendingL, cur, attempt, retPc, cycleDrained, cyclePasses, storeVars, askVars, otherVars>>

\* mutant: the sweep also takes the users in ERROR
SweepEligibleAlsoError(u) == status[u] \in {READY, ERROR}

\* mutant: the sweep takes every user that is not mid-index
SweepEligibleNotIndexing(u) == status[u] # INDEXING

\* if current == RAGStatus.READY
SweepEligible(u) == status[u] = READY

\* for user_email in known_users: if stop: break; re-index the READY ones
WorkerSweepIter ==
    /\ thread_alive /\ wpc = "sweep_iter"
    /\ IF knownL = <<>> \/ stop_event
          THEN /\ wpc' = "sleep"
               /\ knownL' = <<>>
               /\ UNCHANGED <<cur, attempt, retPc>>
          ELSE /\ knownL' = Tail(knownL)
               /\ IF SweepEligible(Head(knownL))
                     THEN CallRetry(Head(knownL), "sweep_iter")
                     ELSE UNCHANGED <<wpc, cur, attempt, retPc>>
    /\ UNCHANGED <<status, statusKeys, progress, pending_users, stop_event, thread_alive,
                   pendingL, cycleDrained, cyclePasses, storeVars, askVars, otherVars>>

\* self._stop_event.wait(timeout=self.reindex_interval) returns
WorkerSleep ==
    /\ thread_alive /\ wpc = "sleep"
    /\ wpc' = "loop"
    /\ cycleDrained' = {}
    /\ cyclePasses' = [u \in Users |-> 0]
    /\ UNCHANGED <<status, statusKeys, progress, pending_users, stop_event, thread_alive,
                   pendingL, knownL, cur, attempt, retPc, storeVars, askVars, otherVars>>

\* ---------------------------------------------------- _index_user_with_retry
\* mutant: the loop head does not test the stop event
RetryCheckIgnoresStop ==
    /\ thread_alive /\ wpc = "r_check"
    /\ wpc' = "r_set"
    /\ UNCHANGED <<cur, attempt, retPc>>
    /\ UNCHANGED <<status, statusKeys, progress, pending_users, stop_event, thread_alive,
                   pendingL, knownL, cycleDrained, cyclePasses, storeVars, askVars, otherVars>>

\* for attempt in range(1, max_retries + 1): if stop: return
RetryCheck ==
    /\ thread_alive /\ wpc = "r_check"
    /\ IF stop_event
          THEN /\ wpc' = retPc
               /\ cur' = NoUser
               /\ attempt' = 0
               /\ retPc' = "none"
               /\ backoff' = 0
          ELSE /\ wpc' = "r_set"
               /\ UNCHANGED <<cur, attempt, retPc, backoff>>
    /\ UNCHANGED <<status, statusKeys, progress, pending_users, stop_event, thread_alive,
                   pendingL, knownL, cycleDrained, cyclePasses, storeVars, askVars, nonRetryVars>>

\* self._set_status(user_email, INDEXING, {"attempt": attempt, ...}); the call
\* of rag_system.index_user_emails follows
RetrySetIndexing ==
    /\ thread_alive /\ wpc = "r_set"
    /\ status' = [status EXCEPT ![cur] = INDEXING]
    /\ statusKeys' = SetStatusKeys(cur)
    /\ progress' = [progress EXCEPT ![cur] = attempt]
    /\ cyclePasses' = IF attempt = 1
                         THEN [cyclePasses EXCEPT ![cur] = @ + 1]
                         ELSE cyclePasses
    /\ wpc' = "r_run"
    /\ UNCHANGED <<pending_users, stop_event, thread_alive, pendingL, knownL,
                   cur, attempt, retPc, cycleDrained, storeVars, askVars, otherVars>>

\* the function returns to its for-loop
RetryReturn ==
    /\ wpc' = retPc
    /\ cur' = NoUser
    /\ attempt' = 0
    /\ retPc' = "none"
    /\ backoff' = 0

\* mutant: the same wait after every failed attempt
BackoffSecondsFlat(k) == retry_delay

\* backoff = self.retry_delay * attempt
BackoffSeconds(k) == retry_delay * k

\* index_user_emails returned: _set_status(READY, ...); return
AttemptSucceeds ==
    /\ status' = [status EXCEPT ![cur] = READY]
    /\ progress' = [progress EXCEPT ![cur] = 0]
    /\ RetryReturn

\* mutant: `attempt <= max_retries`, so the last failure backs off too
AttemptFailsOffByOne ==
    IF attempt <= max_retries
       THEN /\ wpc' = "r_backoff"
            /\ backoff' = BackoffSeconds(attempt)
            /\ UNCHANGED <<status, progress, cur, attempt, retPc>>
       ELSE /\ status' = [status EXCEPT ![cur] = ERROR]
            /\ progress' = [progress EXCEPT ![cur] = 0]
            /\ RetryReturn

\* except Exception: back off while attempts remain, else _set_status(ERROR)
AttemptFails ==
    IF attempt < max_retries
       THEN /\ wpc' = "r_backoff"
            /\ backoff' = BackoffSeconds(attempt)
            /\ UNCHANGED <<status, progress, cur, attempt, retPc>>
       ELSE /\ status' = [status EXCEPT ![cur] = ERROR]
            /\ progress' = [progress EXCEPT ![cur] = 0]
            /\ RetryReturn

\* the effect of one index_user_emails run on the user's collection
IndexEffect(u, o) ==
    hasChunks' = IF o = "added" THEN [hasChunks EXCEPT ![u] = TRUE] ELSE hasChunks

\* rag_system.index_user_emails(db, user_email) ends with outcome o
RetryAttemptEnd(o) ==
    /\ thread_alive /\ wpc = "r_run"
    /\ IndexEffect(cur, o)
    /\ IF o = "raise" THEN AttemptFails ELSE AttemptSucceeds
    /\ UNCHANGED <<statusKeys, pending_users, stop_event, thread_alive, pendingL, knownL,
                   cycleDrained, cyclePasses, inline, askVars, nonRetryVars>>

\* self._stop_event.wait(timeout=backoff) returns; next iteration of the for
RetryBackoff ==
    /\ thread_alive /\ wpc = "r_backoff"
    /\ attempt' = attempt + 1
    /\ wpc' = "r_check"
    /\ UNCHANGED <<status, statusKeys, progress, pending_users, stop_event, thread_alive,
                   pendingL, knownL, cur, retPc, cycleDrained, cyclePasses, storeVars, askVars, otherVars>>

Worker ==
    \/ WorkerStartup
    \/ WorkerLoopTest
    \/ WorkerDrain
    \/ WorkerPendIter
    \/ WorkerSweepSnap
    \/ WorkerSweepIter
    \/ WorkerSleep
    \/ RetryCheck
    \/ RetrySetIndexing
    \/ \E o \in IndexOutcomes : RetryAttemptEnd(o)
    \/ RetryBackoff

\* ------------------------------------------- POST /email/rag/index (email.py)
\* the handler calls rag_system.index_user_emails itself, outside the service
InlineIndexBegin(h, u) ==
    /\ inline[h] = NoUser
    /\ inline' = [inline EXCEPT ![h] = u]
    /\ UNCHANGED <<lifeVars, hasChunks, askVars, otherVars>>

InlineIndexEnd(h, o) ==
    /\ inline[h] # NoUser
    /\ IndexEffect(inline[h], o)
    /\ inline' = [inline EXCEPT ![h] = NoUser]
    /\ UNCHANGED <<lifeVars, askVars, otherVars>>

\* ----------------------------------------------------- InboxOnlyRAG (stats)
\* is_rate_limited()
is_rate_limited ==
    /\ last_rate_limit # NoTime
    /\ now - last_rate_limit < rate_limit_cooldown

\* get_stats(user_email): ok = the vector store answered; otherwise the
\* except branch returns the three-key dict
get_stats(u, ok) ==
    IF ok
       THEN [is_ready |-> hasChunks[u],
             rate_limited |-> is_rate_limited,
             label_filter |-> "INBOX"]
       ELSE [indexed_emails |-> 0, is_ready |-> FALSE, rate_limited |-> FALSE]

\* {**a, **b}: the keys of b win
DictMerge(a, b) == b @@ a

\* _progress[user_email]: the attempt key is there while INDEXING
ProgressDict(u) == IF progress[u] > 0 THEN [attempt |-> progress[u]] ELSE <<>>

\* get_status(user_email), as GET /rag/status and GET /rag/stats return it
get_status(u, ok) ==
    DictMerge(DictMerge([status |-> status[u],
                         is_ready |-> status[u] = READY,
                         is_indexing |-> status[u] = INDEXING],
                        ProgressDict(u)),
              get_stats(u, ok))

\* ------------------------------------------------------------ POST /rag/ask
\* what hybrid_search can return for the user: nothing from an empty
\* collection, otherwise nothing (no sender match) or some messages
Retrieved(u) == IF hasChunks[u] THEN {<<>>, <<"m1">>} ELSE {<<>>}

\* the outcome of groq_client.chat.completions.create
LlmOutcomes == {"ok", "rate_limit", "error"}

\* mutant: the envelope is returned without request_index
AskIdleNoQueue(u, st) ==
    /\ resp' = [user |-> u, seen |-> st, retrieval |-> FALSE, llm |-> "none",
                body |-> [answer |-> "first_time", status |-> "indexing",
                          is_ready |-> FALSE, sources |-> <<>>]]
    /\ UNCHANGED <<pending_users, last_rate_limit, histLen>>

\* the envelope returned for status idle: the user is queued first
AskIdle(u, st) ==
    /\ pending_users' = pending_users \cup {u}
    /\ resp' = [user |-> u, seen |-> st, retrieval |-> FALSE, llm |-> "none",
                body |-> [answer |-> "first_time", status |-> "indexing",
                          is_ready |-> FALSE, sources |-> <<>>]]
    /\ UNCHANGED <<last_rate_limit, histLen>>

\* the envelope returned for status indexing
AskIndexing(u, st) ==
    /\ resp' = [user |-> u, seen |-> st, retrieval |-> FALSE, llm |-> "none",
                body |-> [answer |-> "still_indexing", status |-> "indexing",
                          is_ready |-> FALSE, sources |-> <<>>]]
    /\ UNCHANGED <<pending_users, last_rate_limit, histLen>>

\* mutant: status error falls through to retrieval over what is indexed
AskErrorDegraded(u, st) ==
    /\ \E r \in Retrieved(u) :
         resp' = [user |-> u, seen |-> st, retrieval |-> TRUE, llm |-> "none",
                  body |-> [answer |-> "fallback", status |-> "error",
                            is_ready |-> FALSE, sources |-> r]]
    /\ UNCHANGED <<pending_users, last_rate_limit, histLen>>

\* the envelope returned for status error
AskError(u, st) ==
    /\ resp' = [user |-> u, seen |-> st, retrieval |-> FALSE, llm |-> "none",
                body |-> [answer |-> "index_error", status |-> "error",
                          is_ready |-> FALSE, sources |-> <<>>]]
    /\ UNCHANGED <<pending_users, last_rate_limit, histLen>>

\* rag_system.answer_question and the history update that follows it:
\* r = what hybrid_search returned, o = the outcome of the answer call
AskAnswer(u, st, r, o) ==
    /\ UNCHANGED pending_users
    /\ IF r = <<>>
          THEN /\ resp' = [user |-> u, seen |-> st, retrieval |-> TRUE, llm |-> "none",
                           body |-> [answer |-> "no_results", status |-> "no_results",
                                     sources |-> <<>>]]
               /\ UNCHANGED <<last_rate_limit, histLen>>
          ELSE IF is_rate_limited
          THEN /\ resp' = [user |-> u, seen |-> st, retrieval |-> TRUE, llm |-> "none",
                           body |-> [answer |-> "fallback", status |-> "rate_limited",
                                     sources |-> r]]
               /\ UNCHANGED <<last_rate_limit, histLen>>
          ELSE IF o = "ok"
          THEN /\ histLen[u] + 2 <= MaxHistory
               /\ resp' = [user |-> u, seen |-> st, retrieval |-> TRUE, llm |-> o,
                           body |-> [answer |-> "llm", status |-> "success",
                                     sources |-> r]]
               /\ histLen' = [histLen EXCEPT ![u] =
                                 IF @ + 2 > HistoryCap THEN HistoryCap ELSE @ + 2]
               /\ UNCHANGED last_rate_limit
          ELSE IF o = "rate_limit"
          THEN /\ last_rate_limit' = now
               /\ resp' = [user |-> u, seen |-> st, retrieval |-> TRUE, llm |-> o,
                           body |-> [answer |-> "fallback", status |-> "rate_limited",
                                     sources |-> r]]
               /\ UNCHANGED histLen
          ELSE /\ resp' = [user |-> u, seen |-> st, retrieval |-> TRUE, llm |-> o,
                           body |-> [answer |-> "llm_error", status |-> "error",
                                     sources |-> <<>>]]
               /\ UNCHANGED <<last_rate_limit, histLen>>

\* rag_ask for a non-empty question: status = rag_service.get_status(user),
\* then the branch the status selects
RagAsk(u) ==
    /\ \E ok \in BOOLEAN :
         LET st == get_status(u, ok).status IN
           IF st = IDLE THEN AskIdle(u, st)
           ELSE IF st = INDEXING THEN AskIndexing(u, st)
           ELSE IF st = ERROR THEN AskError(u, st)
           ELSE \E r \in Retrieved(u), o \in LlmOutcomes : AskAnswer(u, st, r, o)
    /\ UNCHANGED <<status, statusKeys, progress, stop_event, thread_alive, wpc, pendingL,
                   knownL, cur, attempt, retPc, cycleDrained, cyclePasses, storeVars, now,
                   otherVars>>

\* ------------------------------------------------------------------- Next
Next ==
    \/ Start
    \/ StartWhileAlive
    \/ Stop
    \/ StopJoined
    \/ \E u \in Users : RequestIndex(u)
    \/ Worker
    \/ \E h \in Handlers, u \in Users : InlineIndexBegin(h, u)
    \/ \E h \in Handlers, o \in IndexOutcomes : InlineIndexEnd(h, o)

Spec == Init /\ [][Next]_vars

\* The application while it serves requests: lifespan calls start() once at
\* startup and stop() only at shutdown; the worker thread is scheduled.
RunNext ==
    \/ Start
    \/ Worker
    \/ \E u \in Users : RequestIndex(u)
    \/ \E u \in Askers : RagAsk(u)

RunSpec == Init /\ [][RunNext]_vars /\ WF_vars(Start) /\ WF_vars(Worker)

\* The service alone, under any use of its API, with its thread scheduled
\* and every index attempt terminating.
LifeNext ==
    \/ Start
    \/ StartWhileAlive
    \/ Stop
    \/ StopJoined
    \/ \E u \in Users : RequestIndex(u)
    \/ Worker

LifeSpec == Init /\ [][LifeNext]_vars /\ WF_vars(Worker)


\* ================================================= TTLCache (rag_service.py)
\* TTLCache.get: the value, or a miss that also drops an expired entry
CacheHit(k) == k \in DOMAIN query_cache /\ ~(now - query_cache[k].inserted_at > ttl_seconds)
CacheAfterGet(k) ==
    IF k \in DOMAIN query_cache /\ now - query_cache[k].inserted_at > ttl_seconds
       THEN [j \in DOMAIN query_cache \ {k} |-> query_cache[j]]
       ELSE query_cache

\* TTLCache.set
CacheAfterSet(k, v) ==
    [j \in DOMAIN query_cache \cup {k} |->
        IF j = k THEN [value |-> v, inserted_at |-> now] ELSE query_cache[j]]

\* TTLCache.clear
CacheCleared == <<>>

\* ====================================== index_user_emails (rag_service.py)
\* Email.labels is ','.join(labelIds): the label ids with "," between them,
\* <<>> for a row stored without labels (NULL)
JoinLabels(ls) ==
    [i \in 1..(IF ls = <<>> THEN 0 ELSE 2 * Len(ls) - 1) |->
        IF i % 2 = 1 THEN ls[(i + 1) \div 2] ELSE ","]

\* the label ids that have INBOX inside them
ContainsInbox(label) == label \in {"INBOX", "OLD_INBOX"}

\* labels LIKE '%INBOX%' (not true of NULL)
LabelsLikeInbox(labels) == \E i \in 1..Len(labels) : ContainsInbox(labels[i])

\* is_inbox_email: [l.strip() for l in email.labels.split(',')] holds 'INBOX';
\* an email without labels passes
is_inbox_email(labels) ==
    IF labels # <<>>
       THEN "INBOX" \in Range(SelectSeq(labels, LAMBDA l : l # ","))
    ELSE TRUE

\* mutant: the query does not filter on labels
AllRows(u) == {i \in 1..Len(emails) : emails[i].user = u}

\* db.query(Email).filter(user_id == user.id, labels LIKE '%INBOX%')
InboxRows(u) == {i \in 1..Len(emails) : emails[i].user = u /\ LabelsLikeInbox(emails[i].labels)}

\* the poller commits a new INBOX row for the user
StoreNewEmail(u) ==
    /\ Len(emails) < MaxRows
    /\ \E m \in Mids :
         emails' = Append(emails, [user |-> u, mid |-> m, labels |-> JoinLabels(<<"INBOX">>),
                                   day |-> MsgDay(m)])
    /\ UNCHANGED <<lifeVars, storeVars, askVars, coll, query_cache, ipc, iuser, iall, inew,
                   qpc, quser, qkey, qres, qhit, qseen, committed, ingestVars, apiVars, restVars>>

\* the rows are read; no INBOX email returns the warning at once
IndexRead(i, u) ==
    /\ ipc[i] = "idle"
    /\ IF InboxRows(u) = {}
          THEN UNCHANGED <<ipc, iuser, iall>>
          ELSE /\ ipc' = [ipc EXCEPT ![i] = "read"]
               /\ iuser' = [iuser EXCEPT ![i] = u]
               /\ iall' = [iall EXCEPT ![i] = InboxRows(u)]
    /\ UNCHANGED <<lifeVars, storeVars, askVars, emails, coll, query_cache, inew,
                   qpc, quser, qkey, qres, qhit, qseen, committed, ingestVars, apiVars, restVars>>

\* existing_email_ids from collection.get(); nothing new returns success
\* without touching the store or the cache
IndexDiff(i) ==
    /\ ipc[i] = "read"
    /\ LET new == iall[i] \ coll[collection_name(iuser[i])] IN
         IF new = {}
            THEN /\ ipc' = [ipc EXCEPT ![i] = "idle"]
                 /\ iuser' = [iuser EXCEPT ![i] = NoUser]
                 /\ iall' = [iall EXCEPT ![i] = {}]
                 /\ UNCHANGED inew
            ELSE /\ ipc' = [ipc EXCEPT ![i] = "embed"]
                 /\ inew' = [inew EXCEPT ![i] = new]
                 /\ UNCHANGED <<iuser, iall>>
    /\ UNCHANGED <<lifeVars, storeVars, askVars, emails, coll, query_cache,
                   qpc, quser, qkey, qres, qhit, qseen, committed, ingestVars, apiVars, restVars>>

\* the run ends: its locals go
IndexLocalsGone(i) ==
    /\ ipc' = [ipc EXCEPT ![i] = "idle"]
    /\ iuser' = [iuser EXCEPT ![i] = NoUser]
    /\ iall' = [iall EXCEPT ![i] = {}]
    /\ inew' = [inew EXCEPT ![i] = {}]

\* chunking or embedding raises: the run ends with nothing stored
IndexRaise(i) ==
    /\ ipc[i] = "embed"
    /\ IndexLocalsGone(i)
    /\ UNCHANGED <<lifeVars, storeVars, askVars, emails, coll, query_cache,
                   qpc, quser, qkey, qres, qhit, qseen, committed, ingestVars, apiVars, restVars>>

\* process_email_batch keeps the emails is_inbox_email passes; with nothing
\* kept the run returns a warning, otherwise collection.add(...)
IndexAdd(i) ==
    /\ ipc[i] = "embed"
    /\ LET kept == {e \in inew[i] : is_inbox_email(emails[e].labels)} IN
         IF kept = {}
            THEN /\ IndexLocalsGone(i)
                 /\ UNCHANGED coll
            ELSE /\ coll' = [coll EXCEPT ![collection_name(iuser[i])] = @ \cup kept]
                 /\ ipc' = [ipc EXCEPT ![i] = "added"]
                 /\ UNCHANGED <<iuser, iall, inew>>
    /\ UNCHANGED <<lifeVars, storeVars, askVars, emails, query_cache,
                   qpc, quser, qkey, qres, qhit, qseen, committed, ingestVars, apiVars, restVars>>

\* self.query_cache.clear(); return {"status": "success", ...}
IndexClearAndReturn(i) ==
    /\ ipc[i] = "added"
    /\ query_cache' = CacheCleared
    /\ committed' = [committed EXCEPT ![iuser[i]] =
                        @ \cup {e \in inew[i] : is_inbox_email(emails[e].labels)}]
    /\ IndexLocalsGone(i)
    /\ UNCHANGED <<lifeVars, storeVars, askVars, emails, coll,
                   qpc, quser, qkey, qres, qhit, qseen, ingestVars, apiVars, restVars>>

\* ============================================ hybrid_search (rag_service.py)
\* cached = self.query_cache.get(cache_key); a hit is returned as it is
SearchGet(h, u, q, f) ==
    /\ qpc[h] = "idle"
    /\ LET k == cache_key(u, q, f) IN
         /\ quser' = [quser EXCEPT ![h] = u]
         /\ qkey' = [qkey EXCEPT ![h] = k]
         /\ qseen' = [qseen EXCEPT ![h] = committed[u]]
         /\ query_cache' = CacheAfterGet(k)
         /\ IF CacheHit(k)
               THEN /\ qpc' = [qpc EXCEPT ![h] = "done"]
                    /\ qres' = [qres EXCEPT ![h] = query_cache[k].value]
                    /\ qhit' = [qhit EXCEPT ![h] = TRUE]
               ELSE /\ qpc' = [qpc EXCEPT ![h] = "miss"]
                    /\ qres' = [qres EXCEPT ![h] = {}]
                    /\ qhit' = [qhit EXCEPT ![h] = FALSE]
    /\ UNCHANGED <<lifeVars, storeVars, askVars, emails, coll, ipc, iuser, iall, inew, committed, ingestVars, apiVars, restVars>>

\* collection.count() == 0 returns [] uncached; otherwise collection.query
\* and the scoring give the result, here the messages it was computed from
SearchQuery(h) ==
    /\ qpc[h] = "miss"
    /\ IF coll[collection_name(quser[h])] = {}
          THEN /\ qpc' = [qpc EXCEPT ![h] = "done"]
               /\ UNCHANGED qres
          ELSE /\ qpc' = [qpc EXCEPT ![h] = "scored"]
               /\ qres' = [qres EXCEPT ![h] = coll[collection_name(quser[h])]]
    /\ UNCHANGED <<lifeVars, storeVars, askVars, emails, coll, query_cache, ipc, iuser, iall, inew,
                   quser, qkey, qhit, qseen, committed, ingestVars, apiVars, restVars>>

\* self.query_cache.set(cache_key, final_results); return final_results
SearchStore(h) ==
    /\ qpc[h] = "scored"
    /\ query_cache' = CacheAfterSet(qkey[h], qres[h])
    /\ qpc' = [qpc EXCEPT ![h] = "done"]
    /\ UNCHANGED <<lifeVars, storeVars, askVars, emails, coll, ipc, iuser, iall, inew,
                   quser, qkey, qres, qhit, qseen, committed, ingestVars, apiVars, restVars>>

\* the caller has the result; the call's locals go
SearchReturn(h) ==
    /\ qpc[h] = "done"
    /\ qpc' = [qpc EXCEPT ![h] = "idle"]
    /\ quser' = [quser EXCEPT ![h] = NoUser]
    /\ qkey' = [qkey EXCEPT ![h] = <<>>]
    /\ qres' = [qres EXCEPT ![h] = {}]
    /\ qhit' = [qhit EXCEPT ![h] = FALSE]
    /\ qseen' = [qseen EXCEPT ![h] = {}]
    /\ UNCHANGED <<lifeVars, storeVars, askVars, emails, coll, query_cache, ipc, iuser, iall, inew,
                   committed, ingestVars, apiVars, restVars>>

\* time passes
Tick ==
    /\ now + TickSeconds <= MaxTicks * TickSeconds
    /\ now' = now + TickSeconds
    /\ UNCHANGED <<lifeVars, storeVars, last_rate_limit, histLen, resp, otherVars>>

\* The query path and the indexer on the shared cache and vector store.
CacheNext ==
    \/ \E u \in Users : StoreNewEmail(u)
    \/ \E i \in Indexers, u \in Users : IndexRead(i, u)
    \/ \E i \in Indexers : IndexDiff(i)
    \/ \E i \in Indexers : IndexRaise(i)
    \/ \E i \in Indexers : IndexAdd(i)
    \/ \E i \in Indexers : IndexClearAndReturn(i)
    \/ \E h \in Searchers, u \in Users, q \in Queries : SearchGet(h, u, q, NoFilter)
    \/ \E h \in Searchers : SearchQuery(h)
    \/ \E h \in Searchers : SearchStore(h)
    \/ \E h \in Searchers : SearchReturn(h)
    \/ Tick

CacheSpec == Init /\ [][CacheNext]_vars

\* ------------------------------------------------ the rows and their labels
\* fetch_user_emails saves a message with the provider's labelIds ls, which it
\* does only when they hold INBOX
FetchedRow(u, m, ls) ==
    /\ Len(emails) < MaxLabelRows
    /\ "INBOX" \in Range(ls)
    /\ emails' = Append(emails, [user |-> u, mid |-> m, labels |-> JoinLabels(ls),
                                 day |-> MsgDay(m)])
    /\ UNCHANGED <<lifeVars, storeVars, askVars, coll, query_cache, ipc, iuser, iall, inew,
                   qpc, quser, qkey, qres, qhit, qseen, committed, ingestVars, apiVars, restVars>>

\* POST /email/sync saves a message without labels; and rows that did not come
\* from these two writers can carry any labels ls
UnfetchedRow(u, m, ls) ==
    /\ Len(emails) < MaxLabelRows
    /\ emails' = Append(emails, [user |-> u, mid |-> m, labels |-> JoinLabels(ls),
                                 day |-> MsgDay(m)])
    /\ UNCHANGED <<lifeVars, storeVars, askVars, coll, query_cache, ipc, iuser, iall, inew,
                   qpc, quser, qkey, qres, qhit, qseen, committed, ingestVars, apiVars, restVars>>

\* Index runs over a table whose rows carry all kinds of labels.
LabelNext ==
    \/ \E u \in Users, ls \in FetchedLabels : FetchedRow(u, "ma", ls)
    \/ \E u \in Users, ls \in UnfetchedLabels : UnfetchedRow(u, "mb", ls)
    \/ \E i \in Indexers, u \in Users : IndexRead(i, u)
    \/ \E i \in Indexers : IndexDiff(i)
    \/ \E i \in Indexers : IndexRaise(i)
    \/ \E i \in Indexers : IndexAdd(i)
    \/ \E i \in Indexers : IndexClearAndReturn(i)

LabelSpec == Init /\ [][LabelNext]_vars

\* ===================================== TTLCache under its callers' threads
\* mutant: an entry expires when its age reaches ttl_seconds
ExpiredAtTtl(t_now, inserted_at) == t_now - inserted_at >= ttl_seconds

\* time.time() - inserted_at > self.ttl_seconds
Expired(t_now, inserted_at) == t_now - inserted_at > ttl_seconds

\* the dict without key k
StoreWithout(k) == [j \in DOMAIN query_cache \ {k} |-> query_cache[j]]

\* the call returns or raises: what the caller gets
TtlDone(t, op, k, hit, v, err) ==
    /\ tpc' = [tpc EXCEPT ![t] = "done"]
    /\ tkey' = [tkey EXCEPT ![t] = <<>>]
    /\ tloc' = [tloc EXCEPT ![t] = NoLocals]
    /\ tret' = [tret EXCEPT ![t] = [op |-> op, key |-> k, hit |-> hit, value |-> v,
                                     err |-> err, at |-> now]]

TtlUnchangedRest ==
    UNCHANGED <<lifeVars, storeVars, askVars, emails, coll, ipc, iuser, iall, inew,
                qpc, quser, qkey, qres, qhit, qseen, committed, ingestVars, apiVars,
                hybridVars, answerVars, laterVars>>

\* get: if key not in self._store: return None
TtlGetTest(t, k) ==
    /\ tpc[t] = "idle"
    /\ IF k \notin DOMAIN query_cache
          THEN TtlDone(t, "get", k, FALSE, {}, "none")
          ELSE /\ tpc' = [tpc EXCEPT ![t] = "get_read"]
               /\ tkey' = [tkey EXCEPT ![t] = k]
               /\ UNCHANGED <<tloc, tret>>
    /\ UNCHANGED <<query_cache, lastSet>>
    /\ TtlUnchangedRest

\* get: value, inserted_at = self._store[key]; the expiry test
TtlGetRead(t) ==
    /\ tpc[t] = "get_read"
    /\ IF tkey[t] \notin DOMAIN query_cache
          THEN TtlDone(t, "get", tkey[t], FALSE, {}, "KeyError")
          ELSE IF Expired(now, query_cache[tkey[t]].inserted_at)
          THEN /\ tpc' = [tpc EXCEPT ![t] = "get_del"]
               /\ tloc' = [tloc EXCEPT ![t] = [value |-> query_cache[tkey[t]].value,
                                               inserted_at |-> query_cache[tkey[t]].inserted_at,
                                               keys |-> {}]]
               /\ UNCHANGED <<tkey, tret>>
          ELSE TtlDone(t, "get", tkey[t], TRUE, query_cache[tkey[t]].value, "none")
    /\ UNCHANGED <<query_cache, lastSet>>
    /\ TtlUnchangedRest

\* get: del self._store[key]; return None
TtlGetDel(t) ==
    /\ tpc[t] = "get_del"
    /\ IF tkey[t] \notin DOMAIN query_cache
          THEN /\ TtlDone(t, "get", tkey[t], FALSE, {}, "KeyError")
               /\ UNCHANGED query_cache
          ELSE /\ query_cache' = StoreWithout(tkey[t])
               /\ TtlDone(t, "get", tkey[t], FALSE, {}, "none")
    /\ UNCHANGED lastSet
    /\ TtlUnchangedRest

\* set: self._store[key] = (value, time.time())
TtlSet(t, k, v) ==
    /\ tpc[t] = "idle"
    /\ query_cache' = CacheAfterSet(k, v)
    /\ lastSet' = [j \in DOMAIN lastSet \cup {k} |->
                      IF j = k THEN [value |-> v, inserted_at |-> now] ELSE lastSet[j]]
    /\ TtlDone(t, "set", k, FALSE, {}, "none")
    /\ TtlUnchangedRest

\* clear: self._store.clear()
TtlClear(t) ==
    /\ tpc[t] = "idle"
    /\ query_cache' = CacheCleared
    /\ lastSet' = <<>>
    /\ TtlDone(t, "clear", <<>>, FALSE, {}, "none")
    /\ TtlUnchangedRest

\* __len__ -> evict_expired: now = time.time(); the iteration over
\* self._store.items() begins (over an empty dict it ends at once)
TtlLenBegin(t) ==
    /\ tpc[t] = "idle"
    /\ IF DOMAIN query_cache = {}
          THEN TtlDone(t, "len", <<>>, FALSE, {}, "none")
          ELSE /\ tpc' = [tpc EXCEPT ![t] = "ev_scan"]
               /\ tloc' = [tloc EXCEPT ![t] = [value |-> {}, inserted_at |-> now,
                                               keys |-> DOMAIN query_cache]]
               /\ UNCHANGED <<tkey, tret>>
    /\ UNCHANGED <<query_cache, lastSet>>
    /\ TtlUnchangedRest

\* evict_expired: the iteration ends; a dict whose size changed meanwhile
\* makes it raise RuntimeError; otherwise `expired` is built
TtlEvictScan(t) ==
    /\ tpc[t] = "ev_scan"
    /\ IF Cardinality(DOMAIN query_cache) # Cardinality(tloc[t].keys)
          THEN TtlDone(t, "len", <<>>, FALSE, {}, "RuntimeError")
          ELSE /\ tpc' = [tpc EXCEPT ![t] = "ev_del"]
               /\ tloc' = [tloc EXCEPT ![t].keys =
                             {k \in DOMAIN query_cache :
                                 Expired(tloc[t].inserted_at, query_cache[k].inserted_at)}]
               /\ UNCHANGED <<tkey, tret>>
    /\ UNCHANGED <<query_cache, lastSet>>
    /\ TtlUnchangedRest

\* evict_expired: for k in expired: del self._store[k]; then len(self._store)
TtlEvictDel(t) ==
    /\ tpc[t] = "ev_del"
    /\ IF tloc[t].keys = {}
          THEN /\ TtlDone(t, "len", <<>>, FALSE, DOMAIN query_cache, "none")
               /\ UNCHANGED query_cache
          ELSE \E k \in tloc[t].keys :
                 IF k \notin DOMAIN query_cache
                    THEN /\ TtlDone(t, "len", <<>>, FALSE, {}, "KeyError")
                         /\ UNCHANGED query_cache
                    ELSE /\ query_cache' = StoreWithout(k)
                         /\ tloc' = [tloc EXCEPT ![t].keys = @ \ {k}]
                         /\ UNCHANGED <<tpc, tkey, tret>>
    /\ UNCHANGED lastSet
    /\ TtlUnchangedRest

\* the caller goes on
TtlReturn(t) ==
    /\ tpc[t] = "done"
    /\ tpc' = [tpc EXCEPT ![t] = "idle"]
    /\ tret' = [tret EXCEPT ![t] = NoReturn]
    /\ UNCHANGED <<tkey, tloc, query_cache, lastSet>>
    /\ TtlUnchangedRest

TtlStep(t) ==
    \/ \E k \in TtlKeys : TtlGetTest(t, k)
    \/ TtlGetRead(t)
    \/ TtlGetDel(t)
    \/ \E k \in TtlKeys, v \in TtlVals : TtlSet(t, k, v)
    \/ TtlClear(t)
    \/ TtlLenBegin(t)
    \/ TtlEvictScan(t)
    \/ TtlEvictDel(t)
    \/ TtlReturn(t)

\* The cache's methods called one at a time.
TtlSeqNext ==
    \/ \E t \in TtlThreads : (\A o \in TtlThreads \ {t} : tpc[o] = "idle") /\ TtlStep(t)
    \/ Tick

TtlSeqSpec == Init /\ [][TtlSeqNext]_vars

\* The cache's methods called by concurrent threads (request handlers of the
\* threadpool, the rag-indexer thread).
TtlNext ==
    \/ \E t \in TtlThreads : TtlStep(t)
    \/ Tick

TtlSpec == Init /\ [][TtlNext]_vars

\* ======================================= hybrid_search: scoring and ranking
\* metadata["sender"] of an email: bare addresses
EmailSender(e) == IF e = 2 THEN <<"b", "o", "@", "x">> ELSE <<"a", "l", "@", "x">>
\* metadata["is_urgent"] == 'True'
EmailUrgent(e) == e = 3

\* re.sub(r'[^a-z0-9]', '', s) on the characters used here
Alnum == {"a", "b", "c", "d", "e", "f", "g", "h", "i", "j", "k", "l", "m", "n", "o", "p", "q", "r", "s", "t", "u", "v", "w", "x", "y", "z", "0", "1", "2", "3", "4", "5", "6", "7", "8", "9"}
RECURSIVE StripNonAlnum(_)
StripNonAlnum(str) ==
    IF str = <<>> THEN <<>>
    ELSE IF Head(str) \in Alnum THEN <<Head(str)>> \o StripNonAlnum(Tail(str))
    ELSE StripNonAlnum(Tail(str))

\* `a in b` for strings
IsSubstring(a, b) ==
    \E i \in 0..(Len(b) - Len(a)) : \A j \in 1..Len(a) : b[i + j] = a[j]

\* sender_matches for a one-word search term that begins with none of the
\* name prefixes (its only variant is itself) and a bare-address sender
\* (full_name is empty, the username is part of the address)
sender_matches(sender, search_term) ==
    /\ search_term # <<>> /\ sender # <<>>
    /\ StripNonAlnum(search_term) # <<>>
    /\ IsSubstring(StripNonAlnum(search_term), StripNonAlnum(sender))

\* ------------------------------------------------- sender_matches in full
\* senders "name <user@x>", or "user@x" where the name is empty
SmNames == {<<>>, <<"a", "n", "n", " ", "l", "e", "e">>, <<"a", "n", "n", " ", "r", "a", "y">>, <<"b", "o", "b">>, <<"l", "e", "e">>}
SmUsers == {<<"a", "l">>, <<"b", "o", "b", ".", "l", "e", "e">>}
SmSenders == [name : SmNames, user : SmUsers]
\* search terms, lower case and stripped
SmTerms == {<<"a", "n", "n", " ", "l", "e", "e">>,
            <<"l", "e", "e", " ", "a", "n", "n">>,
            <<"a", "n", "n", " ", "b", "o", "b">>,
            <<"b", "o", "b", " ", "a", "n", "n">>,
            <<"l", "e", "e", " ", "b", "o", "b">>,
            <<"b", "o", "b", " ", "l", "e", "e">>,
            <<"a", "n", "n">>,
            <<"l", "e", "e">>,
            <<"b", "o", "b">>,
            <<"d", "r", "l", "e", "e">>,
            <<"a", "n", "n", "l", "e", "e">>}

NamePrefixes == {<<"s", "y", "e", "d">>,
                 <<"s", "y", "e", "d", "a">>,
                 <<"m", "u", "h", "a", "m", "m", "a", "d">>,
                 <<"m", "o", "h", "d">>,
                 <<"m", "d">>,
                 <<"h", "a", "f", "i", "z">>,
                 <<"s", "h", "e", "i", "k", "h">>,
                 <<"m", "a", "l", "i", "k">>,
                 <<"r", "a", "n", "a">>,
                 <<"r", "a", "j", "a">>,
                 <<"c", "h">>,
                 <<"c", "h", "a", "u", "d", "h", "r", "y">>,
                 <<"m", "i", "r", "z", "a">>,
                 <<"k", "h", "a", "w", "a", "j", "a">>,
                 <<"m", "i", "s", "s">>,
                 <<"m", "r", "s">>,
                 <<"m", "r">>,
                 <<"d", "r">>}

\* re.sub(r'[^a-z0-9 ]', '', s)
RECURSIVE StripKeepSpaces(_)
StripKeepSpaces(str) ==
    IF str = <<>> THEN <<>>
    ELSE IF Head(str) \in Alnum \cup {" "} THEN <<Head(str)>> \o StripKeepSpaces(Tail(str))
    ELSE StripKeepSpaces(Tail(str))

\* s.replace(' ', '')
RECURSIVE RemoveSpaces(_)
RemoveSpaces(str) ==
    IF str = <<>> THEN <<>>
    ELSE IF Head(str) = " " THEN RemoveSpaces(Tail(str))
    ELSE <<Head(str)>> \o RemoveSpaces(Tail(str))

\* re.sub(r'[._-]', ' ', s)
DotsToSpaces(str) == [i \in 1..Len(str) |-> IF str[i] \in {".", "_", "-"} THEN " " ELSE str[i]]

\* s.split(): the words between the spaces
RECURSIVE SplitWords(_, _)
SplitWords(str, word) ==
    IF str = <<>> THEN (IF word = <<>> THEN <<>> ELSE <<word>>)
    ELSE IF Head(str) = " "
       THEN (IF word = <<>> THEN <<>> ELSE <<word>>) \o SplitWords(Tail(str), <<>>)
    ELSE SplitWords(Tail(str), Append(word, Head(str)))

\* ' '.join(words)
RECURSIVE JoinWords(_)
JoinWords(ws) ==
    IF ws = <<>> THEN <<>>
    ELSE IF Len(ws) = 1 THEN ws[1]
    ELSE ws[1] \o <<" ">> \o JoinWords(Tail(ws))

\* normalize_name(name) for a lower-case name
normalize_name(name) == JoinWords(SplitWords(StripKeepSpaces(name), <<>>))

\* extract_name_parts(sender): full_name, email_address, email_username
extract_name_parts(sender) ==
    [full_name |-> normalize_name(sender.name),
     email_address |-> sender.user \o <<"@", "x">>,
     email_username |-> normalize_name(DotsToSpaces(sender.user))]

\* str.startswith
StartsWith(str, p) == Len(p) <= Len(str) /\ SubSeq(str, 1, Len(p)) = p

\* _generate_search_variants(search_term)
generate_search_variants(term) ==
    LET term_clean == StripNonAlnum(term)
        spaced == \E i \in 1..Len(term) : term[i] = " "
        split == {p \in NamePrefixes : StartsWith(term_clean, p) /\ Len(term_clean) > Len(p) + 1}
        parts == SplitWords(term, <<>>)
    IN {term, term_clean}
       \cup (IF spaced THEN {}
             ELSE UNION {{p \o <<" ">> \o SubSeq(term_clean, Len(p) + 1, Len(term_clean)),
                          SubSeq(term_clean, Len(p) + 1, Len(term_clean)), p} : p \in split})
       \cup (IF spaced
                THEN {parts[i] : i \in {j \in 1..Len(parts) : Len(parts[j]) >= 3}}
                     \cup {RemoveSpaces(JoinWords(parts))}
             ELSE {})

\* the variant loop of sender_matches: some variant is found in a part
VariantMatches(parts, v) ==
    LET v_clean == StripNonAlnum(v)
    IN /\ v_clean # <<>>
       /\ \/ IsSubstring(v_clean, StripNonAlnum(parts.email_address))
          \/ IsSubstring(v_clean, RemoveSpaces(StripKeepSpaces(parts.full_name)))
          \/ IsSubstring(v, StripKeepSpaces(parts.full_name))
          \/ IsSubstring(v_clean, StripNonAlnum(parts.email_username))

\* search_words: the words of the term with three characters or more
SearchWords(term) ==
    LET ws == SplitWords(term, <<>>) IN {ws[i] : i \in {j \in 1..Len(ws) : Len(ws[j]) >= 3}}

\* sender_blob.replace(' ', '')
SenderBlob(parts) ==
    RemoveSpaces(StripKeepSpaces(parts.full_name) \o <<" ">>
                 \o StripNonAlnum(parts.email_address) \o <<" ">>
                 \o StripNonAlnum(parts.email_username))

\* the token overlap check: two words or more, and all of them in the blob
TokenOverlap(parts, term) ==
    /\ Cardinality(SearchWords(term)) >= 2
    /\ \A w \in SearchWords(term) : IsSubstring(StripNonAlnum(w), SenderBlob(parts))

\* sender_matches(sender, search_term), every branch
SenderMatches(sender, term) ==
    LET parts == extract_name_parts(sender)
    IN /\ term # <<>>
       /\ \/ \E v \in generate_search_variants(term) : VariantMatches(parts, v)
          \/ TokenOverlap(parts, term)

\* what a call of a pure function leaves alone
PureUnchangedRest ==
    UNCHANGED <<lifeVars, storeVars, askVars, cacheVars, ingestVars, apiVars, ttlVars,
                hybridVars, answerVars, rateVars, histVars, pollVars, vecVars, retryVars>>

\* a call sender_matches(sender, term)
SenderMatchCall(sender, term) ==
    /\ smret' = [sender |-> sender, term |-> term, result |-> SenderMatches(sender, term)]
    /\ UNCHANGED <<tcret, dl, cn>>
    /\ PureUnchangedRest

MatchNext == \E sender \in SmSenders, term \in SmTerms : SenderMatchCall(sender, term)

MatchSpec == Init /\ [][MatchNext]_vars

\* --------------------------------------------- trim_context_to_token_limit
RECURSIVE SumLens(_)
SumLens(ls) == IF ls = <<>> THEN 0 ELSE Head(ls) + SumLens(Tail(ls))

\* the loop of trim_context_to_token_limit from part i on, current_chars
\* being the length appended so far: each part returned, as the number of
\* its characters kept and whether the marker was added
RECURSIVE TrimFrom(_, _, _, _)
TrimFrom(parts, i, current_chars, max_chars) ==
    IF i > Len(parts) THEN <<>>
    ELSE IF current_chars + parts[i] > max_chars
       THEN (IF max_chars - current_chars > 200
                THEN <<[part |-> i, chars |-> max_chars - current_chars, marker |-> TRUE]>>
             ELSE <<>>)
    ELSE <<[part |-> i, chars |-> parts[i], marker |-> FALSE]>>
         \o TrimFrom(parts, i + 1, current_chars + parts[i], max_chars)

\* trim_context_to_token_limit(context_parts, max_chars), parts as lengths
trim_context_to_token_limit(parts, max_chars) ==
    IF SumLens(parts) <= max_chars
       THEN [i \in 1..Len(parts) |-> [part |-> i, chars |-> parts[i], marker |-> FALSE]]
    ELSE TrimFrom(parts, 1, 0, max_chars)

\* max_context_chars = self.max_context_tokens * self.chars_per_token
max_context_chars == max_context_tokens * chars_per_token

\* len(p) of a returned part
TrimmedLen(t) == t.chars + (IF t.marker THEN TruncatedMarkerLen ELSE 0)

\* len("\n\n".join(context_parts))
ContextLen(ts) ==
    SumLens([i \in 1..Len(ts) |-> TrimmedLen(ts[i])])
    + (IF Len(ts) > 1 THEN SeparatorLen * (Len(ts) - 1) ELSE 0)

\* answer_question trims the blocks it built
TrimCall(parts) ==
    /\ tcret' = [parts |-> parts,
                 result |-> trim_context_to_token_limit(parts, max_context_chars)]
    /\ UNCHANGED <<smret, dl, cn>>
    /\ PureUnchangedRest

TrimNext == \E n \in 1..MaxBlocks : \E parts \in [1..n -> BlockLens] : TrimCall(parts)

TrimSpec == Init /\ [][TrimNext]_vars

\* ----------------------------------------- extract_deadline, _format_deadline
\* extract_deadline(text) at clock t: the date of the first pattern found,
\* else now for a text with 'urgent', 'asap' or 'immediately', else None
extract_deadline(msg, t) ==
    IF msg.date # <<>> THEN msg.date
    ELSE IF msg.words \cap {"urgent", "asap", "immediately"} # {} THEN <<t>>
    ELSE <<>>

\* is_urgent = any(w in text_lower for w in ['urgent', 'asap', 'immediately', 'critical'])
is_urgent(msg) == msg.words \cap UrgencyWords # {}

\* (deadline_dt - datetime.now()).days
DaysUntil(deadline, t) == (deadline - t) \div DaySeconds

\* _format_deadline(deadline_str) at clock t
format_deadline(deadline_date, t) ==
    IF deadline_date = <<>> THEN [kind |-> "No deadline", val |-> 0]
    ELSE LET days_until == DaysUntil(deadline_date[1], t)
         IN IF days_until < 0 THEN [kind |-> "OVERDUE", val |-> 0]
            ELSE IF days_until = 0 THEN [kind |-> "DUE TODAY", val |-> 0]
            ELSE IF days_until <= 3 THEN [kind |-> "DUE IN DAYS", val |-> days_until]
            ELSE [kind |-> "date", val |-> deadline_date[1]]

\* process_email_batch builds the metadata of a message
DeadlineIndex(msg) ==
    /\ dl.stage = "none"
    /\ dl' = [dl EXCEPT !.stage = "indexed", !.msg = msg, !.indexed_at = now,
                        !.meta = [is_urgent |-> is_urgent(msg),
                                  deadline_date |-> extract_deadline(msg, now)]]
    /\ UNCHANGED <<smret, tcret, cn>>
    /\ PureUnchangedRest

\* answer_question builds the message's block of the LLM context, in a
\* request after the index run
DeadlineRender ==
    /\ dl.stage = "indexed"
    /\ dl.indexed_at < now
    /\ dl' = [dl EXCEPT !.stage = "shown", !.at = now,
                        !.shown = [urgent |-> IF dl.meta.is_urgent THEN "YES" ELSE "NO",
                                   deadline |-> format_deadline(dl.meta.deadline_date, now)]]
    /\ UNCHANGED <<smret, tcret, cn>>
    /\ PureUnchangedRest

\* A message is indexed and, then or later, shown in a context.
DeadlineNext ==
    \/ \E msg \in DeadlineMsgs : DeadlineIndex(msg)
    \/ DeadlineRender
    \/ Tick

DeadlineSpec == Init /\ [][DeadlineNext]_vars

\* semantic_score = max(0.0, 1.0 - distance), in hundredths
semantic_score(c) == IF 100 - c.dist > 0 THEN 100 - c.dist ELSE 0

\* hybrid_score in ten-thousandths: the weights differ with a sender filter;
\* urgency_boost 0.10; has_deadline is not set on the emails followed
hybrid_score(c, f) ==
    (IF f # NoFilter THEN 40 * semantic_score(c) + 40 * c.kw
                     ELSE 35 * semantic_score(c) + 45 * c.kw)
    + (IF EmailUrgent(c.email_id) THEN 1000 ELSE 0)

Min2(a, b) == IF a < b THEN a ELSE b

\* n_results
NResults(top_k, f) ==
    IF f # NoFilter THEN Min2(FilterPool, Cardinality(hchunks))
                    ELSE Min2(top_k * 3, Cardinality(hchunks))

\* collection.query(n_results=n): the n nearest chunks, nearest first, in
\* any order among equal distances
QueryResults(n) ==
    {r \in [1..n -> hchunks] :
        /\ \A i, j \in 1..n : i < j => (r[i] # r[j] /\ r[i].dist <= r[j].dist)
        /\ \A c \in hchunks : (\A i \in 1..n : r[i] # c) => \A i \in 1..n : r[i].dist <= c.dist}

\* the scoring loop: chunks of non-matching senders are skipped
RECURSIVE ScoredResults(_, _)
ScoredResults(r, f) ==
    IF r = <<>> THEN <<>>
    ELSE LET c == Head(r) IN
         IF f # NoFilter /\ ~sender_matches(EmailSender(c.email_id), f)
            THEN ScoredResults(Tail(r), f)
            ELSE <<[email_id |-> c.email_id, idx |-> c.idx,
                    sender |-> EmailSender(c.email_id),
                    hybrid_score |-> hybrid_score(c, f),
                    timestamp |-> c.timestamp]>> \o ScoredResults(Tail(r), f)

\* mutant: the first chunk seen of an email is kept
RECURSIVE DedupKeepFirst(_, _)
DedupKeepFirst(scored, seen) ==
    IF scored = <<>> THEN seen
    ELSE LET x == Head(scored)
             at == {i \in 1..Len(seen) : seen[i].email_id = x.email_id}
         IN IF at = {} THEN DedupKeepFirst(Tail(scored), Append(seen, x))
            ELSE DedupKeepFirst(Tail(scored), seen)

\* seen_emails: a dict keeps the position of a key's first insertion; a
\* strictly better chunk replaces the value in place
RECURSIVE Dedup(_, _)
Dedup(scored, seen) ==
    IF scored = <<>> THEN seen
    ELSE LET x == Head(scored)
             at == {i \in 1..Len(seen) : seen[i].email_id = x.email_id}
         IN IF at = {} THEN Dedup(Tail(scored), Append(seen, x))
            ELSE LET i == CHOOSE i \in at : TRUE IN
                 IF x.hybrid_score > seen[i].hybrid_score
                    THEN Dedup(Tail(scored), [seen EXCEPT ![i] = x])
                    ELSE Dedup(Tail(scored), seen)

\* the key (timestamp, hybrid_score) of a before that of b, reverse=True
KeyAbove(a, b) ==
    \/ a.timestamp > b.timestamp
    \/ a.timestamp = b.timestamp /\ a.hybrid_score > b.hybrid_score

\* mutant: the list is left in dict order
SortNot(l) == l

\* list.sort(key=..., reverse=True): stable, so equal keys keep their order
RECURSIVE SortDesc(_)
SortDesc(l) ==
    IF l = <<>> THEN <<>>
    ELSE LET first == CHOOSE i \in 1..Len(l) :
                         /\ \A j \in 1..Len(l) : ~KeyAbove(l[j], l[i])
                         /\ \A j \in 1..(i - 1) : KeyAbove(l[i], l[j])
             rest == [j \in 1..(Len(l) - 1) |-> IF j < first THEN l[j] ELSE l[j + 1]]
         IN <<l[first]>> \o SortDesc(rest)

\* l[:n]
Take(l, n) == [i \in 1..Min2(n, Len(l)) |-> l[i]]

\* mutant: the sender filter is not applied
FinalResultsUnfiltered(r, top_k, f) ==
    LET u == SortDesc(Dedup(ScoredResults(r, NoFilter), <<>>))
    IN IF f # NoFilter THEN Take(u, FilterCap) ELSE Take(u, top_k)

\* final_results from the chunks the store returned
FinalResults(r, top_k, f) ==
    LET u == SortDesc(Dedup(ScoredResults(r, f), <<>>))
    IN IF f # NoFilter THEN Take(u, FilterCap) ELSE Take(u, top_k)

HsUnchangedRest ==
    UNCHANGED <<lifeVars, storeVars, askVars, cacheVars, ingestVars, apiVars, ttlVars,
                answerVars, laterVars>>

\* index_user_emails adds the chunks of one more email (cs: distance and
\* keyword share of each chunk) and clears the query cache
HsIndexEmail(e, ts, cs) ==
    /\ \A c \in hchunks : c.email_id # e
    /\ Cardinality(hchunks) + Len(cs) <= MaxChunks
    /\ hchunks' = hchunks \cup {[email_id |-> e, idx |-> i - 1, dist |-> cs[i][1], kw |-> cs[i][2],
                                 timestamp |-> ts] : i \in 1..Len(cs)}
    /\ hcache' = <<>>
    /\ UNCHANGED hret
    /\ HsUnchangedRest

\* hybrid_search(user, query, top_k, sender_filter), start to return
HybridSearchCall(u, q, top_k, f) ==
    /\ LET k == cache_key(u, q, f) IN
         IF k \in DOMAIN hcache /\ ~Expired(now, hcache[k].inserted_at)
            THEN /\ hret' = [top_k |-> top_k, filter |-> f, hit |-> TRUE,
                             result |-> hcache[k].value, scored |-> hcache[k].scored,
                             recalled |-> hcache[k].recalled]
                 /\ UNCHANGED hcache
            ELSE IF hchunks = {}
            THEN /\ hret' = [top_k |-> top_k, filter |-> f, hit |-> FALSE,
                             result |-> <<>>, scored |-> {}, recalled |-> {}]
                 /\ hcache' = [j \in DOMAIN hcache \ {k} |-> hcache[j]]
            ELSE \E r \in QueryResults(NResults(top_k, f)) :
                   LET final == FinalResults(r, top_k, f)
                       scored == Range(ScoredResults(r, f))
                   IN /\ hret' = [top_k |-> top_k, filter |-> f, hit |-> FALSE,
                                  result |-> final, scored |-> scored,
                                  recalled |-> Range(r)]
                      /\ hcache' = [j \in DOMAIN hcache \cup {k} |->
                                       IF j = k THEN [value |-> final, inserted_at |-> now,
                                                      scored |-> scored, recalled |-> Range(r)]
                                       ELSE hcache[j]]
    /\ UNCHANGED hchunks

\* hybrid_search called on its own
HybridSearch(u, q, top_k, f) ==
    /\ HybridSearchCall(u, q, top_k, f)
    /\ HsUnchangedRest

ChunkLists ==
    UNION {[1..n -> ChunkKinds] : n \in 1..MaxChunksPerEmail}

\* Retrieval over a growing collection.
HybridNext ==
    \/ \E e \in EmailIds, ts \in Timestamps, cs \in ChunkLists : HsIndexEmail(e, ts, cs)
    \/ \E q \in Queries, top_k \in TopKs, f \in Filters : HybridSearch("u1", q, top_k, f)

HybridSpec == Init /\ [][HybridNext]_vars

\* ============================================ answer_question (rag_service.py)
\* detect_sender_from_query on the questions followed
detect_sender(q) == IF q = QLatestFrom THEN AlFilter ELSE NoFilter
\* any(w in question_lower for w in ['most recent', 'latest', 'newest', 'last'])
HasRecencyWord(q) == q \in {QLatestFrom, QFollowUp}
\* contextualize_query's needs_context
NeedsContext(q) == q = QFollowUp
\* any(w in question_lower for w in ["all", "list", "show"])
HasListWord(q) == q = QPlain

\* the top_k answer_question asks for
AnswerTopK(q, f) ==
    IF f # NoFilter THEN TopKSender ELSE IF HasListWord(q) THEN TopKList ELSE TopKDefault

\* contextualize_query makes its LLM call
RewriteCalled(q, hist) == hist /\ NeedsContext(q)

\* mutant: the most-recent narrowing is not done
NarrowedNot(l, q, f) == l

\* email_list after the narrowing
Narrowed(l, q, f) == IF f # NoFilter /\ HasRecencyWord(q) THEN Take(l, 1) ELSE l

\* _build_sources: one source per entry
build_sources(l) ==
    [i \in 1..Len(l) |-> [email_id |-> l[i].email_id, sender |-> l[i].sender,
                          timestamp |-> l[i].timestamp]]

\* rag_ask's answer branch for a READY user: answer_question with the user's
\* history, then the history update. q = the question; sq = what
\* contextualize_query returns (the LLM's rewrite, or q when the call is not
\* made or raises); o = the outcome of the answer call
AnswerQuestion(u, q, sq, o) ==
    LET hist == histLen[u] > 0
        f == detect_sender(sq)
        limited == is_rate_limited
    IN /\ ~RewriteCalled(q, hist) => sq = q
       /\ HybridSearchCall(u, sq, AnswerTopK(q, f), f)
       /\ LET retrieved == hret'.result
              email_list == Narrowed(retrieved, q, f)
              rewrite == IF RewriteCalled(q, hist) THEN {"rewrite"} ELSE {}
              base == [question |-> q, search_question |-> sq, limited |-> limited,
                       retrieved |-> retrieved]
          IN IF retrieved = <<>>
                THEN /\ ans' = base @@ [calls |-> rewrite, status |-> "no_results",
                                        emails_found |-> 0, sources |-> <<>>]
                     /\ UNCHANGED <<last_rate_limit, histLen>>
             ELSE IF limited
                THEN /\ ans' = base @@ [calls |-> rewrite, status |-> "rate_limited",
                                        emails_found |-> Len(email_list),
                                        sources |-> build_sources(email_list)]
                     /\ UNCHANGED <<last_rate_limit, histLen>>
             ELSE IF o = "ok"
                THEN /\ histLen[u] + 2 <= MaxHistory
                     /\ ans' = base @@ [calls |-> rewrite \cup {"answer"}, status |-> "success",
                                        emails_found |-> Len(email_list),
                                        sources |-> build_sources(email_list)]
                     /\ histLen' = [histLen EXCEPT ![u] =
                                       IF @ + 2 > HistoryCap THEN HistoryCap ELSE @ + 2]
                     /\ UNCHANGED last_rate_limit
             ELSE IF o = "rate_limit"
                THEN /\ ans' = base @@ [calls |-> rewrite \cup {"answer"},
                                        status |-> "rate_limited",
                                        emails_found |-> Len(email_list),
                                        sources |-> build_sources(email_list)]
                     /\ last_rate_limit' = now
                     /\ UNCHANGED histLen
             ELSE /\ ans' = base @@ [calls |-> rewrite \cup {"answer"}, status |-> "error",
                                     emails_found |-> 0, sources |-> <<>>]
                  /\ UNCHANGED <<last_rate_limit, histLen>>
       /\ UNCHANGED <<lifeVars, storeVars, now, resp, cacheVars, ingestVars, apiVars, ttlVars,
                      laterVars>>

\* an hour passes
CoolTick ==
    /\ now + CoolTickSeconds <= MaxCoolTicks * CoolTickSeconds
    /\ now' = now + CoolTickSeconds
    /\ UNCHANGED <<lifeVars, storeVars, last_rate_limit, histLen, resp, otherVars>>

\* Questions answered over a growing collection of emails from one sender
\* (one chunk per email), over hours.
AnswerNext ==
    \/ \E e \in {1, 3}, ts \in Timestamps : HsIndexEmail(e, ts, <<<<20, 0>>>>)
    \/ \E q \in Questions, sq \in Questions, o \in LlmOutcomes :
          AnswerQuestion("u1", q, sq, o)
    \/ CoolTick

AnswerSpec == Init /\ [][AnswerNext]_vars

\* ------------------------- answer_question's rate-limit branch, thread by thread
\* `self.last_rate_limit = time.time()` is a clock read followed by an
\* attribute store; rag_ask is a plain def, so several threadpool threads can
\* be between the two. AnswerQuestion above is the call of a thread that is
\* not switched out there.
\* mutant: the branch returns the fallback without recording the time
AnswerRateLimitStoreNoStamp(t) ==
    /\ apc[t] = "store"
    /\ ans' = astash[t].ans
    /\ apc' = [apc EXCEPT ![t] = "idle"]
    /\ astash' = [astash EXCEPT ![t] = NoStash]
    /\ UNCHANGED <<lifeVars, storeVars, askVars, cacheVars, ingestVars, apiVars, ttlVars,
                   hybridVars, histVars, pollVars, vecVars, retryVars, pureVars>>

\* answer_question up to the evaluation of time.time() in the except branch:
\* retrieval found emails, the cooldown gate was open, the answer call raised
\* a rate-limit error
AnswerRateLimitRead(t, u, q, sq) ==
    LET hist == histLen[u] > 0
        f == detect_sender(sq)
    IN /\ apc[t] = "idle"
       /\ ~RewriteCalled(q, hist) => sq = q
       /\ ~is_rate_limited
       /\ HybridSearchCall(u, sq, AnswerTopK(q, f), f)
       /\ hret'.result # <<>>
       /\ LET email_list == Narrowed(hret'.result, q, f)
              rewrite == IF RewriteCalled(q, hist) THEN {"rewrite"} ELSE {}
          IN astash' = [astash EXCEPT ![t] =
                 [t |-> now,
                  ans |-> [question |-> q, search_question |-> sq, limited |-> FALSE,
                           retrieved |-> hret'.result, calls |-> rewrite \cup {"answer"},
                           status |-> "rate_limited", emails_found |-> Len(email_list),
                           sources |-> build_sources(email_list)]]]
       /\ apc' = [apc EXCEPT ![t] = "store"]
       /\ UNCHANGED <<lifeVars, storeVars, askVars, cacheVars, ingestVars, apiVars, ttlVars,
                      answerVars, histVars, pollVars, vecVars, retryVars, pureVars>>

\* the store into self.last_rate_limit, and the rest of the branch to its return
AnswerRateLimitStore(t) ==
    /\ apc[t] = "store"
    /\ last_rate_limit' = astash[t].t
    /\ ans' = astash[t].ans
    /\ apc' = [apc EXCEPT ![t] = "idle"]
    /\ astash' = [astash EXCEPT ![t] = NoStash]
    /\ UNCHANGED <<lifeVars, storeVars, now, histLen, resp, cacheVars, ingestVars, apiVars,
                   ttlVars, hybridVars, histVars, pollVars, vecVars, retryVars, pureVars>>

\* Two questions answered by two threads over one indexed email, over hours.
RateNext ==
    \/ HsIndexEmail(1, 1, <<<<20, 0>>>>)
    \/ \E q \in {QPlain, QLatestFrom}, o \in LlmOutcomes : AnswerQuestion("u1", q, q, o)
    \/ \E t \in AskThreads, q \in {QPlain, QLatestFrom} : AnswerRateLimitRead(t, "u1", q, q)
    \/ \E t \in AskThreads : AnswerRateLimitStore(t)
    \/ CoolTick

RateSpec == Init /\ [][RateNext]_vars

\* ------------------------------ rag_ask's conversation history (rag_router.py)
\* The answer branch of rag_ask, thread by thread: the dict and the lists in
\* it are shared by the threadpool threads and no lock is taken.
HistUnchangedRest ==
    UNCHANGED <<lifeVars, storeVars, askVars, cacheVars, ingestVars, apiVars, ttlVars,
                hybridVars, answerVars, rateVars, pollVars, vecVars, retryVars, pureVars>>

\* list.append(entry)
ListAppend(l, entry) ==
    [len |-> l.len + 1,
     tail |-> IF Len(l.tail) = 2 THEN <<l.tail[2], entry>> ELSE Append(l.tail, entry)]

\* history[-20:]
LastTwenty(l) == [len |-> IF l.len > HistoryCap THEN HistoryCap ELSE l.len, tail |-> l.tail]

\* the list a thread's `history` names
HistoryList(t) == IF history[t].stored THEN conversation_histories[huser[t]] ELSE history[t].val

\* the threads' locals after conversation_histories[u] is bound to a new list
\* by thread t: a thread that named the old list keeps it
Rebound(t, u) ==
    [x \in AskThreads |->
        IF x # t /\ huser[x] = u /\ history[x].stored
           THEN [stored |-> FALSE, val |-> conversation_histories[u]]
        ELSE history[x]]

\* history.append(entry), seen through every name of the list
Appended(t, entry) ==
    IF history[t].stored
       THEN /\ conversation_histories' =
                  [conversation_histories EXCEPT ![huser[t]] = ListAppend(@, entry)]
            /\ UNCHANGED history
       ELSE /\ history' = [history EXCEPT ![t].val = ListAppend(@, entry)]
            /\ UNCHANGED conversation_histories

\* `if current_user_email not in conversation_histories`
AskHistoryTest(t, u) ==
    /\ hpc[t] = "idle"
    /\ hpc' = [hpc EXCEPT ![t] = IF u \in histKeys THEN "get" ELSE "create"]
    /\ huser' = [huser EXCEPT ![t] = u]
    /\ UNCHANGED <<conversation_histories, histKeys, hresult, history>>
    /\ HistUnchangedRest

\* `conversation_histories[current_user_email] = []`
AskHistoryCreate(t) ==
    /\ hpc[t] = "create"
    /\ conversation_histories' = [conversation_histories EXCEPT ![huser[t]] = EmptyList]
    /\ histKeys' = histKeys \cup {huser[t]}
    /\ history' = Rebound(t, huser[t])
    /\ hpc' = [hpc EXCEPT ![t] = "get"]
    /\ UNCHANGED <<huser, hresult>>
    /\ HistUnchangedRest

\* `history = conversation_histories[current_user_email]`
AskHistoryGet(t) ==
    /\ hpc[t] = "get"
    /\ history' = [history EXCEPT ![t] = [stored |-> TRUE, val |-> EmptyList]]
    /\ hpc' = [hpc EXCEPT ![t] = "answer"]
    /\ UNCHANGED <<conversation_histories, histKeys, huser, hresult>>
    /\ HistUnchangedRest

\* mutant: the history is updated for a rate_limited result as well
AfterAnswerAlsoFallback(st) == IF st \in {"success", "rate_limited"} THEN "append_q" ELSE "idle"

\* what the thread does when answer_question has returned (or raised)
AfterAnswer(st) == IF st = "success" THEN "append_q" ELSE "idle"

\* answer_question returns with status st; `if result.get("status") == "success"`
AskHistoryAnswer(t, st) ==
    /\ hpc[t] = "answer"
    /\ hpc' = [hpc EXCEPT ![t] = AfterAnswer(st)]
    /\ hresult' = [hresult EXCEPT ![t] = st]
    /\ history' = IF AfterAnswer(st) = "idle" THEN [history EXCEPT ![t] = NoHistory]
                  ELSE history
    /\ huser' = IF AfterAnswer(st) = "idle" THEN [huser EXCEPT ![t] = NoUser] ELSE huser
    /\ UNCHANGED <<conversation_histories, histKeys>>
    /\ HistUnchangedRest

\* history.append({"role": "user", "content": request.question})
AskHistoryAppendQuestion(t) ==
    /\ hpc[t] = "append_q"
    /\ Appended(t, [role |-> "user", content |-> QFollowUp])
    /\ hpc' = [hpc EXCEPT ![t] = "append_a"]
    /\ UNCHANGED <<histKeys, huser, hresult>>
    /\ HistUnchangedRest

\* history.append({"role": "assistant", "content": result["answer"]})
AskHistoryAppendAnswer(t) ==
    /\ hpc[t] = "append_a"
    /\ Appended(t, [role |-> "assistant", content |-> <<"answer">>])
    /\ hpc' = [hpc EXCEPT ![t] = "store"]
    /\ UNCHANGED <<histKeys, huser, hresult>>
    /\ HistUnchangedRest

\* `conversation_histories[current_user_email] = history[-20:]`, and the return
AskHistoryStore(t) ==
    /\ hpc[t] = "store"
    /\ conversation_histories' =
          [conversation_histories EXCEPT ![huser[t]] = LastTwenty(HistoryList(t))]
    /\ histKeys' = histKeys \cup {huser[t]}
    /\ history' = [Rebound(t, huser[t]) EXCEPT ![t] = NoHistory]
    /\ hpc' = [hpc EXCEPT ![t] = "idle"]
    /\ huser' = [huser EXCEPT ![t] = NoUser]
    /\ UNCHANGED hresult
    /\ HistUnchangedRest

\* POST /rag/ask requests of one READY user, two at a time.
HistNext ==
    \/ \E t \in AskThreads : AskHistoryTest(t, "u1")
    \/ \E t \in AskThreads : AskHistoryCreate(t)
    \/ \E t \in AskThreads : AskHistoryGet(t)
    \/ \E t \in AskThreads, st \in AnswerStatuses : AskHistoryAnswer(t, st)
    \/ \E t \in AskThreads : AskHistoryAppendQuestion(t)
    \/ \E t \in AskThreads : AskHistoryAppendAnswer(t)
    \/ \E t \in AskThreads : AskHistoryStore(t)

HistSpec == Init /\ [][HistNext]_vars

\* The same requests when those of one user do not overlap (requests of
\* different users still do).
HistSeqNext ==
    \/ \E t \in AskThreads, u \in Users :
          /\ \A x \in AskThreads : huser[x] # u
          /\ AskHistoryTest(t, u)
    \/ \E t \in AskThreads : AskHistoryCreate(t)
    \/ \E t \in AskThreads : AskHistoryGet(t)
    \/ \E t \in AskThreads, st \in AnswerStatuses : AskHistoryAnswer(t, st)
    \/ \E t \in AskThreads : AskHistoryAppendQuestion(t)
    \/ \E t \in AskThreads : AskHistoryAppendAnswer(t)
    \/ \E t \in AskThreads : AskHistoryStore(t)

HistSeqSpec == Init /\ [][HistSeqNext]_vars

\* ============================================ fetch_user_emails and callers
\* the mail provider delivers a message to the user's INBOX
MailArrives(u, m) ==
    /\ m \notin provider[u]
    /\ provider' = [provider EXCEPT ![u] = @ \cup {m}]
    /\ UNCHANGED <<lifeVars, storeVars, askVars, cacheVars, gpc, guser, gleft, gcur, gsaved,
                   apiVars, restVars>>

\* last_email = the user's row with the greatest date; 0 where there is none
Watermark(u) ==
    LET days == {emails[i].day : i \in {j \in 1..Len(emails) : emails[j].user = u}}
    IN IF days = {} THEN 0 ELSE CHOOSE d \in days : \A e \in days : e <= d

\* messages().list(labelIds=["INBOX"], q="after:<date of last_email>",
\* maxResults=max_results): one page, the newest first
Listed(u) ==
    LET after == {m \in provider[u] : Watermark(u) = 0 \/ MsgDay(m) >= Watermark(u)}
    IN IF Cardinality(after) <= max_results THEN after
       ELSE CHOOSE page \in SUBSET after :
               /\ Cardinality(page) = max_results
               /\ \A a \in page, b \in after \ page : MsgDay(a) >= MsgDay(b)

\* db.query(Email).filter(message_id == msg["id"], user_id == user_id).first()
RowExists(u, m) == \E i \in 1..Len(emails) : emails[i].user = u /\ emails[i].mid = m

\* the run ends and its locals go
FetchLocalsGone(g) ==
    /\ gpc' = [gpc EXCEPT ![g] = "idle"]
    /\ guser' = [guser EXCEPT ![g] = NoUser]
    /\ gleft' = [gleft EXCEPT ![g] = {}]
    /\ gcur' = [gcur EXCEPT ![g] = NoMsg]
    /\ gsaved' = [gsaved EXCEPT ![g] = 0]

\* mutant: an error in a cycle ends the user's poller thread
PollersAfterCycleDies(g, u, failed) ==
    IF g # "poller" THEN pollers
    ELSE {p \in pollers : p.user # u \/ ~failed}

\* the user's poller thread has finished a cycle (the loop's except and
\* finally clauses, then time.sleep): it lives on, whatever the cycle did
PollersAfterCycle(g, u, failed) ==
    IF g # "poller" THEN pollers
    ELSE {IF p.user = u
             THEN [p EXCEPT !.cycles = 1 - @, !.prev = p.last,
                            !.last = IF failed THEN "failed" ELSE "ok"]
          ELSE p : p \in pollers}

\* what the caller does with the returned count n: the poller queues a
\* re-index when n > 0 (_auto_index_after_fetch), the background task
\* nothing; failed = fetch_user_emails caught an error and returned 0
AfterFetch(g, u, n, failed) ==
    /\ IF g = "poller" /\ n > 0
          THEN pending_users' = pending_users \cup {u}
          ELSE UNCHANGED pending_users
    /\ pollers' = PollersAfterCycle(g, u, failed)

FetchUnchangedLife ==
    UNCHANGED <<status, statusKeys, progress, stop_event, thread_alive, wpc, pendingL, knownL,
                cur, attempt, retPc, cycleDrained, cyclePasses, storeVars, askVars, coll,
                query_cache, ipc, iuser, iall, inew, qpc, quser, qkey, qres, qhit, qseen,
                committed, provider, apiVars, ttlVars, hybridVars, answerVars, rateVars,
                histVars, access_token, polling_threads, pstarted, vecVars, retryVars, pureVars>>

\* the run begins: watermark, list; an empty list returns 0
FetchList(g, u) ==
    /\ gpc[g] = "idle"
    /\ IF Listed(u) = {}
          THEN /\ AfterFetch(g, u, 0, FALSE)
               /\ UNCHANGED <<gpc, guser, gleft, gcur, gsaved>>
          ELSE /\ gpc' = [gpc EXCEPT ![g] = "loop"]
               /\ guser' = [guser EXCEPT ![g] = u]
               /\ gleft' = [gleft EXCEPT ![g] = Listed(u)]
               /\ UNCHANGED <<gcur, gsaved, pending_users, pollers>>
    /\ UNCHANGED emails
    /\ FetchUnchangedLife

\* get_gmail_service or messages().list raises: except Exception: return 0
FetchListRaise(g, u) ==
    /\ gpc[g] = "idle"
    /\ AfterFetch(g, u, 0, TRUE)
    /\ UNCHANGED <<gpc, guser, gleft, gcur, gsaved, emails>>
    /\ FetchUnchangedLife

\* for msg in messages: skip the ones a row exists for; the loop's end
\* returns saved_count
FetchCheck(g) ==
    /\ gpc[g] = "loop"
    /\ IF gleft[g] = {}
          THEN /\ AfterFetch(g, guser[g], gsaved[g], FALSE)
               /\ FetchLocalsGone(g)
          ELSE /\ \E m \in gleft[g] :
                    /\ gleft' = [gleft EXCEPT ![g] = @ \ {m}]
                    /\ IF RowExists(guser[g], m)
                          THEN UNCHANGED <<gpc, gcur>>
                          ELSE /\ gpc' = [gpc EXCEPT ![g] = "get"]
                               /\ gcur' = [gcur EXCEPT ![g] = m]
               /\ UNCHANGED <<guser, gsaved, pending_users, pollers>>
    /\ UNCHANGED emails
    /\ FetchUnchangedLife

\* messages().get(format="full"), then db.add(email); db.commit()
FetchSave(g) ==
    /\ gpc[g] = "get"
    /\ Len(emails) < MaxRows
    /\ emails' = Append(emails, [user |-> guser[g], mid |-> gcur[g],
                                 labels |-> JoinLabels(<<"INBOX">>), day |-> MsgDay(gcur[g])])
    /\ gsaved' = [gsaved EXCEPT ![g] = @ + 1]
    /\ gcur' = [gcur EXCEPT ![g] = NoMsg]
    /\ gpc' = [gpc EXCEPT ![g] = "loop"]
    /\ UNCHANGED <<guser, gleft, pending_users, pollers>>
    /\ FetchUnchangedLife

\* a provider or store call raises: except Exception: return 0
FetchRaise(g) ==
    /\ gpc[g] = "get"
    /\ AfterFetch(g, guser[g], 0, TRUE)
    /\ FetchLocalsGone(g)
    /\ UNCHANGED emails
    /\ FetchUnchangedLife

\* Mail ingestion: the provider, and the concurrent runs of fetch_user_emails.
IngestNext ==
    \/ \E u \in Users, m \in Mids : MailArrives(u, m)
    \/ \E g \in Ingesters, u \in Users : FetchList(g, u)
    \/ \E g \in Ingesters : FetchCheck(g)
    \/ \E g \in Ingesters : FetchSave(g)
    \/ \E g \in Ingesters : FetchRaise(g)

IngestSpec == Init /\ [][IngestNext]_vars

\* the messages in the INBOXes at the provider
ProviderMessages == {um \in Users \X Mids : um[2] \in provider[um[1]]}

\* The poller alone, cycle after cycle for every user, with provider and store
\* calls that do not fail for ever, and no more mail than the table is
\* followed for.
PollNext ==
    \/ \E u \in Users, m \in Mids :
          /\ Cardinality(ProviderMessages) < MaxRows
          /\ MailArrives(u, m)
    \/ \E u \in Users : FetchList("poller", u)
    \/ FetchCheck("poller")
    \/ FetchSave("poller")
    \/ FetchRaise("poller")

PollSpec ==
    /\ Init
    /\ [][PollNext]_vars
    /\ \A u \in Users : SF_vars(FetchList("poller", u))
    /\ WF_vars(FetchCheck("poller"))
    /\ SF_vars(FetchSave("poller"))

\* ------------------------------------------------------ the poller threads
PollUnchangedRest ==
    UNCHANGED <<status, statusKeys, progress, stop_event, thread_alive, wpc, pendingL, knownL,
                cur, attempt, retPc, cycleDrained, cyclePasses, storeVars, askVars, cacheVars,
                ingestVars, apiVars, ttlVars, hybridVars, answerVars, rateVars, histVars,
                vecVars, retryVars, pureVars>>

\* the live poller threads of user u
PollersOf(u) == {p \in pollers : p.user = u}

\* polling_threads[user_id].is_alive()
PollerAlive(u) == \E p \in pollers : p.id = polling_threads[u]

\* threading.Thread(target=_poll_emails_continuously, ...).start() for the
\* users in U, and polling_threads[user.id] = thread
StartedFor(U) ==
    LET no == CHOOSE f \in [U -> 1..Cardinality(U)] : \A a, b \in U : a # b => f[a] # f[b]
        id(u) == Cardinality(pollers) + no[u]
    IN  /\ pollers' = pollers \cup {[id |-> id(u), user |-> u, cycles |-> 0,
                                      prev |-> "none", last |-> "none"] : u \in U}
        /\ polling_threads' = [u \in Users |-> IF u \in U THEN id(u) ELSE polling_threads[u]]

\* auth_callback: create_or_update_user stores the tokens, create_jwt, redirect
AuthCallback(u) ==
    /\ access_token' = [access_token EXCEPT ![u] = TRUE]
    /\ UNCHANGED <<polling_threads, pollers, pstarted, pending_users>>
    /\ PollUnchangedRest

\* _start_polling_threads(), called once by lifespan: a thread for every user
\* whose access_token is not NULL
StartPollingThreads ==
    /\ ~pstarted
    /\ pstarted' = TRUE
    /\ StartedFor({u \in Users : access_token[u]})
    /\ UNCHANGED <<access_token, pending_users>>
    /\ PollUnchangedRest

\* _start_polling_threads() whose query raises: except Exception: print
StartPollingThreadsRaise ==
    /\ ~pstarted
    /\ pstarted' = TRUE
    /\ UNCHANGED <<access_token, polling_threads, pollers, pending_users>>
    /\ PollUnchangedRest

\* on_new_user_login(user_id, user_email), called on the event loop
OnNewUserLogin(u) ==
    /\ pstarted
    /\ access_token[u]
    /\ pending_users' = pending_users \cup {u}
    /\ IF polling_threads[u] = 0 \/ ~PollerAlive(u)
          THEN StartedFor({u})
          ELSE UNCHANGED <<polling_threads, pollers>>
    /\ UNCHANGED <<access_token, pstarted>>
    /\ PollUnchangedRest

\* a poller thread of user u leaves time.sleep(interval) and runs a cycle
PollFetch(u) ==
    /\ PollersOf(u) # {}
    /\ FetchList("poller", u)

\* the cycle's first provider or store call raises
PollFetchRaise(u) ==
    /\ PollersOf(u) # {}
    /\ FetchListRaise("poller", u)

\* Logins, the start of the pollers, and the pollers' cycles with calls that
\* may fail; the sleeps end and the calls return.
ThreadNext ==
    \/ \E u \in Users : AuthCallback(u)
    \/ StartPollingThreads
    \/ StartPollingThreadsRaise
    \/ \E u \in Users : OnNewUserLogin(u)
    \/ \E u \in Users : MailArrives(u, "ma")
    \/ \E u \in Users : PollFetch(u)
    \/ \E u \in Users : PollFetchRaise(u)
    \/ FetchCheck("poller")
    \/ FetchSave("poller")
    \/ FetchRaise("poller")

ThreadSpec ==
    /\ Init
    /\ [][ThreadNext]_vars
    /\ \A u \in Users : SF_vars(PollFetch(u) \/ PollFetchRaise(u))
    /\ WF_vars(FetchCheck("poller"))
    /\ WF_vars(FetchSave("poller") \/ FetchRaise("poller"))

\* --------------------------------------------------------- chunks and ids
\* mutant: chunk indexes counted from 1
chunk_text_from_one(n) ==
    IF n <= chunk_size
       THEN <<[from |-> 0, to |-> n, idx |-> 1]>>
    ELSE [k \in 1..((n + chunk_size - 1) \div chunk_size) |->
             LET i == (k - 1) * chunk_size
             IN [from |-> i, to |-> (IF i + chunk_size < n THEN i + chunk_size ELSE n), idx |-> (i \div chunk_size) + 1]]

\* chunk_text(text, email_id) for a text of n characters: the pieces
\* text[from:to] with their indexes
chunk_text(n) ==
    IF n <= chunk_size
       THEN <<[from |-> 0, to |-> n, idx |-> 0]>>
    ELSE [k \in 1..((n + chunk_size - 1) \div chunk_size) |->
             LET i == (k - 1) * chunk_size
             IN [from |-> i, to |-> (IF i + chunk_size < n THEN i + chunk_size ELSE n), idx |-> i \div chunk_size]]

\* f"{email.id}_{chunk_idx}"
ChunkId(e, idx) == ToString(e) \o "_" \o ToString(idx)

\* email.date.timestamp() if email.date else datetime.now().timestamp()
VecTimestamp(date) == IF date # <<>> THEN <<"date", date[1]>> ELSE <<"now", now>>

\* the documents, metadatas and ids process_email_batch returns for the
\* email with Email.id e and row r
EmailChunks(e, r) ==
    LET chunks == chunk_text(r.len)
    IN {[id |-> ChunkId(e, chunks[k].idx),
         document |-> <<chunks[k].from, chunks[k].to>>,
         meta |-> [email_id |-> ToString(e), attrs |-> r.attrs, date |-> r.date,
                   timestamp |-> VecTimestamp(r.date),
                   chunk_index |-> chunks[k].idx]] : k \in 1..Len(chunks)}

\* existing_email_ids: cid.split('_')[0] of the stored ids
ExistingEmailIds == {c.meta.email_id : c \in vstore}

VecRows == [len : TextLens, date : VecDates, attrs : VecAttrs]

VecUnchangedRest ==
    UNCHANGED <<lifeVars, storeVars, askVars, cacheVars, ingestVars, apiVars, ttlVars,
                hybridVars, answerVars, rateVars, histVars, pollVars, retryVars, pureVars>>

\* index_user_emails over the INBOX rows rows[e], e \in DOMAIN rows: the rows
\* not yet in the collection are chunked and added in one collection.add
IndexRows(rows) ==
    LET new_emails == {e \in DOMAIN rows : ToString(e) \notin ExistingEmailIds}
    IN /\ new_emails # {}
       /\ vstore' = vstore \cup UNION {EmailChunks(e, rows[e]) : e \in new_emails}
       /\ UNCHANGED vrows
       /\ VecUnchangedRest

\* len(f"FROM: {email.sender}\nSUBJECT: {email.subject}\nDATE: {email.date}\n\n{email_body}")
EmailTextLen(m) ==
    TextLabelsLen + m.sender + m.subject + (IF m.date = <<>> THEN 4 ELSE 19) + m.body

\* a message is stored as the row with Email.id e
StoreMessage(e, m) ==
    /\ vrows[e] = <<>>
    /\ vrows' = [vrows EXCEPT ![e] = <<m>>]
    /\ UNCHANGED vstore
    /\ VecUnchangedRest

\* index_user_emails over the stored rows
IndexStoredRows ==
    LET stored == {e \in VecEmailIds : vrows[e] # <<>>}
    IN IndexRows([e \in stored |->
                     [len |-> EmailTextLen(vrows[e][1]), date |-> vrows[e][1].date,
                      attrs |-> "plain"]])

\* Messages of different field lengths are stored and indexed.
ChunkNext ==
    \/ \E e \in VecEmailIds, m \in MessageRows : StoreMessage(e, m)
    \/ IndexStoredRows

ChunkSpec == Init /\ [][ChunkNext]_vars

\* Index runs over one user's rows, with the clock moving between them.
VecNext ==
    \/ \E es \in SUBSET VecEmailIds : \E rows \in [es -> VecRows] : IndexRows(rows)
    \/ Tick

VecSpec == Init /\ [][VecNext]_vars

\* ========================================================= index lifecycle
RetryPcs == {"r_check", "r_set", "r_run", "r_backoff"}

\* the runs of index_user_emails in progress for user u
IndexingOps(u) ==
    (IF wpc = "r_run" /\ cur = u THEN 1 ELSE 0)
    + Cardinality({h \in Handlers : inline[h] = u})

\* C1: for every user, at every time, at most one run of index_user_emails
\* for that user is in progress, whether the worker or the inline
\* POST /email/rag/index handler started it.
C1_AtMostOneIndexOp == \A u \in Users : IndexingOps(u) <= 1

\* C2: at the end of a worker cycle that ran without stop(), every user the
\* cycle took from the PendingSet has had exactly one index pass in that
\* cycle: not zero, and no second pass from the sweep.
C2_OnePassPerPickup ==
    (wpc = "sleep" /\ ~stop_event) =>
        \A u \in cycleDrained : cyclePasses[u] = 1

\* C3: a hybrid_search that begins after an index run added messages for the
\* user and returned success never returns a cached result computed from the
\* collection as it was before that add.
C3_NoStaleCacheHit ==
    \A h \in Searchers :
        (qpc[h] = "done" /\ qhit[h]) => qseen[h] \subseteq qres[h]

\* C4: the emails table never holds two rows with the same user and the
\* same provider message id.
C4_UniqueMessageRows ==
    \A i, j \in 1..Len(emails) :
        (emails[i].user = emails[j].user /\ emails[i].mid = emails[j].mid) => i = j

\* inside a call of _index_user_with_retry the attempt number is in
\* 1..max_retries, and during an attempt and its backoff the status is
\* indexing with that number recorded
C5_InCall ==
    wpc \in RetryPcs =>
        /\ attempt \in 1..max_retries
        /\ wpc \in {"r_run", "r_backoff"} =>
              (status[cur] = INDEXING /\ progress[cur] = attempt)
\* one step of the call: error only from the failure of attempt max_retries,
\* one more attempt per retry, ready at once on success
C5_Step ==
    /\ \A u \in Users :
         (status[u] # ERROR /\ status'[u] = ERROR) =>
            (wpc = "r_run" /\ cur = u /\ attempt = max_retries)
    /\ (wpc = "r_backoff" /\ wpc' # "r_backoff") => attempt' = attempt + 1
    /\ (wpc = "r_run" /\ wpc' = "r_backoff") => attempt < max_retries
    /\ (\E o \in IndexOutcomes \ {"raise"} : RetryAttemptEnd(o)) =>
            (status'[cur] = READY /\ wpc' = retPc)
\* C5: a call of _index_user_with_retry makes attempts 1..max_retries only;
\* during an attempt and the backoff after it the status is indexing with the
\* attempt number recorded, and the number grows by one per retry; the status
\* becomes error only when attempt max_retries fails; an attempt that
\* succeeds makes the status ready at once.
C5_RetryBound == [](C5_InCall) /\ [][C5_Step]_vars

C5_Witness ==
    /\ wpc = "r_run" /\ attempt = max_retries
    /\ status[cur] = INDEXING /\ progress[cur] = max_retries

\* error -> indexing happens only in the pass over the drained PendingSet
C6_OnlyFromPending ==
    \A u \in Users :
        (status[u] = ERROR /\ status'[u] = INDEXING) =>
            (cur = u /\ retPc = "pend_iter" /\ u \in cycleDrained)
\* C6: a user in status error goes back to indexing only in the worker's
\* pass over the drained PendingSet, never in the periodic sweep; and an
\* error user that request_index has queued is eventually indexing while the
\* worker runs.
C6_ErrorLeavesOnRequest ==
    /\ [][C6_OnlyFromPending]_vars
    /\ \A u \in Users :
         (status[u] = ERROR /\ u \in pending_users) ~> (status[u] = INDEXING)

C6_Witness ==
    /\ wpc = "r_set" /\ retPc = "pend_iter"
    /\ status[cur] = ERROR

\* C7: when an /ask detects an LLM rate limit (last_rate_limit is written),
\* the index status of the asking user becomes rate_limited.
C7_RateLimitSetsStatus ==
    [][last_rate_limit' # last_rate_limit => status'[resp'.user] = RATE_LIMITED]_vars

\* C8: is_ready(user) and the is_ready field of get_status(user) are true
\* exactly when the user's status is ready, whatever the merged stats hold.
C8_ReadyIffStatusReady ==
    \A u \in Users, ok \in BOOLEAN :
        /\ is_ready(u) <=> (status[u] = READY)
        /\ get_status(u, ok).is_ready <=> (status[u] = READY)

\* the response of an /ask that found the user idle
C9_IdleEnvelope ==
    resp.seen = IDLE =>
        /\ ~resp.retrieval
        /\ resp.body.status = "indexing"
        /\ resp.body.is_ready = FALSE
        /\ resp.body.sources = <<>>
\* an /ask on an idle user leaves the user in the PendingSet
C9_Queues ==
    \A u \in Askers :
        (status[u] = IDLE /\ RagAsk(u)) => u \in pending_users'
\* C9: an /ask that finds the user idle queues the user, runs no retrieval
\* and returns status indexing, is_ready false and no sources; and while the
\* worker runs, that user's status eventually becomes indexing.
C9_IdleGate ==
    /\ [](C9_IdleEnvelope)
    /\ [][C9_Queues]_vars
    /\ \A u \in Askers :
         (resp.user = u /\ resp.seen = IDLE /\ status[u] = IDLE) ~> (status[u] = INDEXING)

C9_Witness ==
    /\ resp.seen = IDLE
    /\ status[resp.user] = IDLE
    /\ resp.user \in pending_users

C11_Step ==
    (stop_event /\ thread_alive) =>
        /\ stop_event'
        /\ ~(wpc # "r_set" /\ wpc' = "r_set")
        /\ ~(wpc \in {"pend_iter", "sweep_iter"} /\ wpc' = "r_check")
        /\ (wpc = "r_run" /\ wpc' # "r_run") =>
               (status'[cur] \in {READY, ERROR} \/ (wpc' = "r_backoff" /\ attempt < max_retries))

\* C11: once stop() is signalled the attempt in flight runs to completion,
\* no loop head lets another attempt begin for any user, and the worker
\* thread exits.
C11_Cancellation ==
    /\ [][C11_Step]_vars
    /\ (stop_event /\ thread_alive) ~> ~thread_alive

C11_Witness == stop_event /\ thread_alive /\ wpc = "r_run" /\ attempt < max_retries

\* C12: when the latest lifecycle call is a start() (stop() before it, if
\* any, has returned), a worker thread is alive.
C12_StartedMeansAlive == lastCall = "start" => thread_alive

\* C13: a get(k) returns the value of the latest set(k, .) since the latest
\* clear() when that set is at most ttl_seconds old; otherwise it returns
\* nothing and the key is no longer in the store.
C13_RoundTrip ==
    \A t \in TtlThreads :
        (tpc[t] = "done" /\ tret[t].op = "get") =>
            LET k == tret[t].key IN
              /\ tret[t].err = "none"
              /\ IF k \in DOMAIN lastSet /\ tret[t].at - lastSet[k].inserted_at <= ttl_seconds
                    THEN tret[t].hit /\ tret[t].value = lastSet[k].value
                    ELSE ~tret[t].hit /\ k \notin DOMAIN query_cache

C13_Witness ==
    \E t \in TtlThreads :
        /\ tpc[t] = "done" /\ tret[t].op = "get" /\ tret[t].hit
        /\ tret[t].at - lastSet[tret[t].key].inserted_at = ttl_seconds

\* C14: no TTLCache call made by concurrent threads raises.
C14_NoCallRaises == \A t \in TtlThreads : tret[t].err = "none"

\* C15: the list hybrid_search returns has at most one entry per email_id,
\* each entry is a chunk of its email with the highest hybrid score among the
\* chunks scored, and every email scored has its entry unless the list was
\* cut at its limit.
C15_DedupPerMessage ==
    LET res == hret.result
        limit == IF hret.filter # NoFilter THEN FilterCap ELSE hret.top_k
    IN /\ \A i, j \in 1..Len(res) : res[i].email_id = res[j].email_id => i = j
       /\ \A i \in 1..Len(res) :
            /\ res[i] \in hret.scored
            /\ \A x \in hret.scored :
                 x.email_id = res[i].email_id => x.hybrid_score <= res[i].hybrid_score
       /\ (~hret.hit /\ Len(res) < limit) =>
            {x.email_id : x \in hret.scored} = {res[i].email_id : i \in 1..Len(res)}

C15_Witness ==
    /\ Len(hret.result) = 2
    /\ \E x, y \in hret.scored :
         x.email_id = y.email_id /\ x.hybrid_score < y.hybrid_score /\ x.idx < y.idx

\* C16: the list hybrid_search returns is in descending order of timestamp
\* and, among equal timestamps, of hybrid_score.
C16_SortedNewestFirst ==
    \A i \in 1..(Len(hret.result) - 1) :
        LET a == hret.result[i]
            b == hret.result[i + 1]
        IN \/ a.timestamp > b.timestamp
           \/ a.timestamp = b.timestamp /\ a.hybrid_score >= b.hybrid_score

C16_Witness ==
    /\ Len(hret.result) = 3
    /\ hret.result[1].timestamp = hret.result[2].timestamp
    /\ hret.result[1].hybrid_score > hret.result[2].hybrid_score
    /\ hret.result[2].timestamp > hret.result[3].timestamp

\* C17: hybrid_search returns at most 50 results with a sender filter and at
\* most top_k without one.
C17_TruncatedToLimit ==
    Len(hret.result) <= (IF hret.filter # NoFilter THEN FilterCap ELSE hret.top_k)

\* C18: with a sender filter, every result is from a sender that matches
\* it, and every email of a matching sender among the recalled chunks is in
\* the list unless the list was cut at 50.
C18_SenderFilter ==
    hret.filter # NoFilter =>
        /\ \A i \in 1..Len(hret.result) :
             sender_matches(hret.result[i].sender, hret.filter)
        /\ Len(hret.result) < FilterCap =>
             {c.email_id : c \in {d \in hret.recalled :
                                     sender_matches(EmailSender(d.email_id), hret.filter)}}
               = {hret.result[i].email_id : i \in 1..Len(hret.result)}

C18_Witness ==
    /\ hret.filter = AlFilter
    /\ Len(hret.result) = 2
    /\ \E c \in hret.recalled : c.email_id = 2

\* C19: a sender-scoped question with a recency word and a non-empty
\* retrieval is answered (by the LLM or by the rate-limited fallback) with
\* emails_found = 1 and one source, the retrieved email of greatest timestamp.
C19_MostRecentOnly ==
    (/\ detect_sender(ans.search_question) # NoFilter
     /\ HasRecencyWord(ans.question)
     /\ ans.retrieved # <<>>
     /\ ans.status \in {"success", "rate_limited"}) =>
        /\ ans.emails_found = 1
        /\ Len(ans.sources) = 1
        /\ \A i \in 1..Len(ans.retrieved) :
             ans.retrieved[i].timestamp <= ans.sources[1].timestamp

C19_Witness ==
    /\ detect_sender(ans.search_question) # NoFilter
    /\ HasRecencyWord(ans.question)
    /\ ans.status = "rate_limited" /\ ans.limited
    /\ Len(ans.retrieved) = 2
    /\ ans.retrieved[2].timestamp < ans.retrieved[1].timestamp
    /\ Len(ans.sources) = 1

\* C20: an answer_question call made inside the cooldown window makes no
\* LLM call at all.
C20_NoLlmCallInCooldown == ans.limited => ans.calls = {}

\* C21: an answer call that fails with a rate-limit error makes answer_question
\* store the clock value it read into last_rate_limit and return status
\* rate_limited with the fallback listing and at least one source;
\* last_rate_limit is written by nothing else, and holds a clock value that
\* was read, never a later one.
C21_Step ==
    /\ \A t \in AskThreads :
          apc[t] = "idle" /\ apc'[t] = "store" => astash'[t].t = now
    /\ \A t \in AskThreads :
          apc[t] = "store" /\ apc'[t] = "idle" =>
             /\ last_rate_limit' = astash[t].t
             /\ ans' = astash[t].ans
             /\ ans'.status = "rate_limited"
             /\ ans'.sources # <<>>
             /\ ans'.emails_found = Len(ans'.sources)
    /\ (apc' = apc /\ ans' # ans /\ "answer" \in ans'.calls /\ ans'.status = "rate_limited") =>
          last_rate_limit' = now /\ ans'.sources # <<>>
    /\ last_rate_limit' # last_rate_limit =>
          /\ "answer" \in ans'.calls
          /\ ans'.status = "rate_limited"
          /\ last_rate_limit' \in 0..now

C21_RateLimitNotFatal == [][C21_Step]_vars

C21_Witness ==
    /\ ans.status = "rate_limited"
    /\ "answer" \in ans.calls
    /\ ans.sources # <<>>
    /\ last_rate_limit = now
    /\ now > 0

\* C21 as stated: last_rate_limit never decreases.
C21_NeverDecreases == [][last_rate_limit' >= last_rate_limit]_vars

\* C22: the stored conversation history of a user is changed only by a
\* POST /ask whose result has status success, which appends the request's
\* question and then the answer; a result with any other status leaves it as it
\* was; and when a request returns, and whenever no request of the user is
\* between its appends and its store, the stored history has at most
\* HistoryCap entries.
C22_OnSuccessPath(t) == hresult[t] = "success" /\ hpc[t] \in {"append_q", "append_a", "store"}

C22_ChangedOnlyOnSuccess ==
    \A u \in Users :
       conversation_histories'[u] # conversation_histories[u] =>
          \E t \in AskThreads : huser[t] = u /\ C22_OnSuccessPath(t)

C22_QuestionThenAnswer ==
    \A t \in AskThreads :
       /\ hpc[t] = "append_q" /\ hpc'[t] = "append_a" =>
             HistoryList(t)' = ListAppend(HistoryList(t),
                                          [role |-> "user", content |-> QFollowUp])
       /\ hpc[t] = "append_a" /\ hpc'[t] = "store" =>
             HistoryList(t)' = ListAppend(HistoryList(t),
                                          [role |-> "assistant", content |-> <<"answer">>])
       /\ hpc[t] \in {"append_q", "append_a", "store"} => hresult[t] = "success"

C22_StoredTurns ==
    \A t \in AskThreads :
       hpc[t] = "store" /\ hpc'[t] = "idle" =>
          LET was == conversation_histories[huser[t]]
              is == conversation_histories'[huser[t]]
          IN /\ is.tail = <<[role |-> "user", content |-> QFollowUp],
                            [role |-> "assistant", content |-> <<"answer">>]>>
             /\ is.len = IF was.len > HistoryCap THEN HistoryCap ELSE was.len

C22_CappedAtReturn ==
    /\ \A t \in AskThreads :
          hpc[t] # "idle" /\ hpc'[t] = "idle" =>
             conversation_histories'[huser[t]].len <= HistoryCap
    /\ \A u \in Users :
          (\A t \in AskThreads : huser'[t] = u => hpc'[t] \notin {"append_a", "store"}) =>
             conversation_histories'[u].len <= HistoryCap

C22_HistoryGrowsOnSuccessOnly ==
    [][/\ C22_ChangedOnlyOnSuccess
       /\ C22_QuestionThenAnswer
       /\ C22_StoredTurns
       /\ C22_CappedAtReturn]_vars

C22_Witness ==
    \E t \in AskThreads :
       /\ hpc[t] = "store"
       /\ hresult[t] = "success"
       /\ conversation_histories[huser[t]].len = HistoryCap + 2

\* C23: every chunk in a user's collection was made from a row of that user
\* whose labels hold the label INBOX; a row with other labels only, or with no
\* labels, has no chunk in any collection.
C23_OnlyInboxIndexed ==
    \A u \in Users : \A e \in coll[collection_name(u)] :
       /\ e \in 1..Len(emails)
       /\ emails[e].user = u
       /\ "INBOX" \in Range(emails[e].labels)

C23_Witness ==
    /\ committed["u1"] # {}
    /\ coll[collection_name("u1")] # {}
    /\ \E e \in 1..Len(emails) : emails[e].user = "u1" /\ emails[e].labels = <<>>
    /\ \E e \in 1..Len(emails) :
          emails[e].user = "u1" /\ LabelsLikeInbox(emails[e].labels)
                                /\ "INBOX" \notin Range(emails[e].labels)
    /\ \A i \in Indexers : ipc[i] = "idle"

\* C24: a poll cycle that has saved at least one new row for its user has
\* queued the user for indexing when it ends, also when it ends on a failure
\* after the save; and the rows are in the table when the user is queued.
C24_CycleEnds == gpc["poller"] # "idle" /\ gpc'["poller"] = "idle"

C24_Step ==
    /\ (C24_CycleEnds /\ gsaved["poller"] > 0) => guser["poller"] \in pending_users'
    /\ \A u \in Users :
          (u \in pending_users' /\ u \notin pending_users) =>
             /\ guser["poller"] = u
             /\ gsaved["poller"] > 0
             /\ Cardinality({i \in 1..Len(emails) : emails[i].user = u}) >= gsaved["poller"]

C24_SavedCycleQueuesIndex == [][C24_Step]_vars

\* the part of C24 about cycles that end without a failure
C24_CompletedCycleQueuesIndex ==
    [][(C24_CycleEnds /\ gpc["poller"] = "loop" /\ gsaved["poller"] > 0) =>
          guser["poller"] \in pending_users']_vars

\* C25: every message in a user's INBOX at the provider is eventually a row
\* of that user in the emails table, whatever its date relative to the rows
\* already stored.
C25_AtLeastOnce ==
    \A u \in Users : \A m \in Mids : (m \in provider[u]) ~> RowExists(u, m)

\* ------------------------------------------------------------------- C26
\* a cycle of user u's poller has just ended in an error
C26_CycleFails(u) ==
    /\ PollersOf(u) # {}
    /\ \/ /\ gpc["poller"] = "get" /\ guser["poller"] = u /\ gpc'["poller"] = "idle"
       \/ /\ gpc["poller"] = "idle" /\ gpc'["poller"] = "idle"
          /\ \E p \in PollersOf(u), q \in pollers' :
                q.id = p.id /\ q.cycles # p.cycles /\ q.last = "failed"

\* no step ends a live poller thread, and a cycle that fails changes nothing
\* of the background index service
C26_Step ==
    /\ \A p \in pollers : \E q \in pollers' : q.id = p.id /\ q.user = p.user
    /\ \A u \in Users : C26_CycleFails(u) => UNCHANGED lifeVars

\* C26: a poll cycle that fails never ends the poller: the user's thread
\* stays alive, the background index worker's state is untouched, and the
\* thread goes on to finish another cycle
C26_FailedCycleKeepsPoller ==
    /\ [][C26_Step]_vars
    /\ \A u \in Users : \A c \in {0, 1} :
          (\E p \in PollersOf(u) : p.last = "failed" /\ p.cycles = c)
             ~> (\E p \in PollersOf(u) : p.cycles # c)

\* a poller whose cycle failed has since finished a cycle without error
C26_Witness ==
    \E p \in pollers : p.prev = "failed" /\ p.last = "ok"

\* ------------------------------------------------------------------- C27
\* C27: once the pollers have been started, every user with an access
\* credential has exactly one live poller thread, and no user ever has two
C27_OnePollerPerUser ==
    /\ \A u \in Users : Cardinality(PollersOf(u)) <= 1
    /\ pstarted => \A u \in Users : access_token[u] => Cardinality(PollersOf(u)) = 1

\* no user ever has two live poller threads
C27_AtMostOnePoller ==
    \A u \in Users : Cardinality(PollersOf(u)) <= 1

\* ------------------------------------------------------------------- C28
\* the stored chunks of the email whose id prints as e
C28_ChunksOf(e) == {c \in vstore : c.meta.email_id = e}

\* C28: every stored chunk has the id "<email id>_<chunk index>", the chunk
\* indexes of an email of n chunks are 0..n-1, and the chunks of one email
\* carry the same metadata but for chunk_index
C28_ChunkIdentity ==
    /\ \A c \in vstore : c.id = c.meta.email_id \o "_" \o ToString(c.meta.chunk_index)
    /\ \A e \in ExistingEmailIds :
          {c.meta.chunk_index : c \in C28_ChunksOf(e)} = 0..(Cardinality(C28_ChunksOf(e)) - 1)
    /\ \A c, d \in vstore :
          c.meta.email_id = d.meta.email_id
             => [c.meta EXCEPT !.chunk_index = 0] = [d.meta EXCEPT !.chunk_index = 0]
    /\ \A c, d \in vstore : c.id = d.id => c = d

\* an email without a date is stored as three chunks, beside another email
C28_Witness ==
    /\ \E c \in vstore : c.meta.date = <<>> /\ c.meta.chunk_index = 2
    /\ Cardinality(ExistingEmailIds) = 2

\* ------------------------------------------------------------------- C29
\* the running index attempt ends in an exception
C29_FailedAttempt ==
    /\ wpc = "r_run" /\ wpc' # "r_run"
    /\ status'[cur] # READY

C29_Step ==
    /\ C29_FailedAttempt =>
          IF attempt < max_retries
             THEN /\ wpc' = "r_backoff"
                  /\ backoff' = retry_delay * attempt
                  /\ backoff' \in {30, 60}
             ELSE /\ wpc' = retPc
                  /\ backoff' = 0
                  /\ status'[cur] = ERROR
    /\ wpc = "r_backoff" /\ wpc' # "r_backoff" =>
          wpc' = "r_check" /\ attempt' = attempt + 1 /\ attempt' <= max_retries

C30_SweepIndexes(u) ==
    /\ wpc = "r_set" /\ retPc = "sweep_iter"
    /\ cur = u /\ attempt = 1

C30_Step ==
    /\ (wpc = "sweep_iter" /\ wpc' = "r_check") =>
          /\ cur' = Head(knownL)
          /\ status[cur'] = READY
    /\ \A u \in Users :
          (retPc = "sweep_iter" /\ status[u] # INDEXING /\ status'[u] = INDEXING) =>
             status[u] = READY

\* C30: the sweep starts an index pass only for a user whose status is ready
\* when the sweep examines the user, never for one that is idle, indexing or
\* in error; and while the worker runs, a ready user is indexed again by a
\* sweep unless the user's status has become error
C30_SweepReindexesReady ==
    /\ [][C30_Step]_vars
    /\ \A u \in Users :
          (status[u] = READY) ~> (C30_SweepIndexes(u) \/ status[u] = ERROR)

\* the sweep re-indexes a ready user, having passed over one in error
C30_Witness ==
    /\ \E u \in Users : C30_SweepIndexes(u) /\ status[u] = READY
    /\ \E v \in Users : v \in Range(statusKeys) /\ status[v] = ERROR

\* ------------------------------------------------------------------- C31
\* the stored list of user u after the step: its last two entries have
\* different roles, and it has lost no entry but to the cap of HistoryCap
C31_StepFor(u) ==
    LET old == conversation_histories[u]
        new == conversation_histories'[u]
    IN /\ Len(new.tail) = 2 => new.tail[1].role # new.tail[2].role
       /\ new.len >= (IF old.len > HistoryCap THEN HistoryCap ELSE old.len)

\* C31: under every interleaving of two /rag/ask handlers of one user no
\* appended turn is lost and the roles in the stored history alternate,
\* each question followed at once by its answer
C31_HistoryAtomic == [][\A u \in Users : C31_StepFor(u)]_vars

\* ------------------------------------------------------------------- C32
\* C32: a search term of two or more words of three characters or more
\* matches a sender only if every one of those words is found in the
\* sender's name, address and username
C32_AllTokensRequired ==
    (smret.result /\ Cardinality(SearchWords(smret.term)) >= 2) =>
        \A w \in SearchWords(smret.term) :
            IsSubstring(StripNonAlnum(w), SenderBlob(extract_name_parts(smret.sender)))

\* ------------------------------------------------------------------- C33
\* the blocks kept whole are the longest run of first blocks within budget
C33_WholePrefix(parts, n) ==
    /\ n <= Len(parts)
    /\ SumLens(SubSeq(parts, 1, n)) <= max_context_chars
    /\ n < Len(parts) => SumLens(SubSeq(parts, 1, n + 1)) > max_context_chars

\* C33: the joined context has at most max_context_tokens * 4 characters;
\* the blocks are kept whole, in order, up to the first that would overflow,
\* and that one is kept as a prefix with the marker exactly when at least
\* 200 characters of budget remain; no later block is kept
C33_ContextBudget ==
    LET parts == tcret.parts
        res == tcret.result
        whole == {i \in 1..Len(res) : ~res[i].marker}
        n == Cardinality(whole)
        remaining == max_context_chars - SumLens(SubSeq(parts, 1, n))
    IN /\ ContextLen(res) <= max_context_chars
       /\ \A i \in 1..Len(res) : res[i].part = i
       /\ \A i \in whole : i <= n /\ res[i].chars = parts[i]
       /\ C33_WholePrefix(parts, n)
       /\ Len(res) \in {n, n + 1}
       /\ Len(res) = n + 1 <=> (n < Len(parts) /\ remaining >= 200)
       /\ Len(res) = n + 1 => res[n + 1].chars = remaining

\* ------------------------------------------------------------------- C34
\* C34: an indexed message whose body has at most chunk_size characters
\* is stored as exactly one chunk, whatever its sender, subject and date
C34_ShortBodyOneChunk ==
    \A e \in VecEmailIds :
        (vrows[e] # <<>> /\ ToString(e) \in ExistingEmailIds /\ vrows[e][1].body <= chunk_size)
           => Cardinality({c \in vstore : c.meta.email_id = ToString(e)}) = 1

\* ------------------------------------------------------------------- C35
\* C35: in the LLM context a message with an urgency word and no deadline
\* date shows Urgent: YES and Deadline: No deadline; a message whose stored
\* deadline_date is before now shows OVERDUE; one with a date far ahead
\* shows that date
C35_DeadlineRendering ==
    dl.stage = "shown" =>
        /\ (dl.msg.words # {} /\ dl.msg.date = <<>>) =>
              (dl.shown.urgent = "YES" /\ dl.shown.deadline.kind = "No deadline")
        /\ (dl.msg.date # <<>> /\ dl.msg.date[1] < dl.at) =>
              dl.shown.deadline.kind = "OVERDUE"
        /\ (dl.msg.date # <<>> /\ dl.msg.date[1] >= 10 * DaySeconds) =>
              dl.shown.deadline = [kind |-> "date", val |-> dl.msg.date[1]]

\* ------------------------------------------------------------------- C36
\* the users whose request the service still holds: in _pending_users, in
\* the worker's drained list, or handed to _index_user_with_retry whose
\* first attempt has not begun
OwedUsers ==
    pending_users \cup Range(pendingL)
        \cup (IF wpc = "r_check" /\ retPc = "pend_iter" /\ attempt = 1 THEN {cur} ELSE {})

\* C36: no index request is lost: a user whose request is held (in the
\* PendingSet or in the batch the worker drained) stays held until an index
\* pass for that user starts, also when stop() arrives while the worker
\* iterates over the drained batch and a start() follows
C36_NoRequestLost ==
    [][\A u \in OwedUsers :
          \/ u \in OwedUsers'
          \/ (cur' = u /\ wpc' = "r_set")]_vars

\* ------------------------------------------------------------------- C37
\* a call of _index_user_with_retry(u) is on the worker's stack
RetryCallActive(u) == thread_alive /\ cur = u

\* C37: status indexing means an index pass is in progress: a user for whom
\* no call of _index_user_with_retry is active, in particular after the
\* worker has exited following stop(), does not have the status indexing
C37_IndexingMeansActive ==
    \A u \in Users : status[u] = INDEXING => RetryCallActive(u)

\* ------------------------------------------------------------------- C38
\* the step changes the status or the progress record of user u
C38_StatusStep(u) == status'[u] # status[u] \/ progress'[u] # progress[u]

\* the step leaves the lifecycle state of every user but u as it is
C38_OthersUnchanged(u) ==
    \A w \in Users \ {u} :
        /\ status'[w] = status[w]
        /\ progress'[w] = progress[w]
        /\ (w \in Range(statusKeys')) = (w \in Range(statusKeys))

\* C38: users are independent in the lifecycle state: a status transition
\* of user u leaves the status and progress record of every other user
\* unchanged, and a step that queues u (request_index) changes only u's
\* membership in the PendingSet and no status
C38_UsersIndependent ==
    [][\A u \in Users :
          /\ C38_StatusStep(u) => C38_OthersUnchanged(u)
          /\ (u \in pending_users' \ pending_users) =>
                /\ pending_users' = pending_users \cup {u}
                /\ UNCHANGED <<status, progress, statusKeys>>]_vars

C38_Witness ==
    /\ status["u1"] = INDEXING /\ progress["u1"] = 2
    /\ status["u2"] = READY
    /\ pending_users = {"u2"}

\* ------------------------------------------------------------------- C39
\* index passes of the worker and of the inline handler over the same store
IdemNext ==
    \/ \E u \in Users : StoreNewEmail(u)
    \/ \E i \in Indexers \cup InlineIndexers, u \in Users : IndexRead(i, u)
    \/ \E i \in Indexers \cup InlineIndexers : IndexDiff(i)
    \/ \E i \in Indexers \cup InlineIndexers : IndexRaise(i)
    \/ \E i \in Indexers \cup InlineIndexers : IndexAdd(i)
    \/ \E i \in Indexers \cup InlineIndexers : IndexClearAndReturn(i)

IdemSpec == Init /\ [][IdemNext]_vars

\* the pass of indexer i finds every INBOX row of its user in the collection
C39_NothingNew(i) ==
    ipc[i] = "read" /\ iall[i] \subseteq coll[collection_name(iuser[i])]

\* the messages indexer i hands to collection.add in this step
C39_Added(i) ==
    IF ipc[i] = "embed" /\ ipc'[i] = "added"
       THEN {e \in inew[i] : is_inbox_email(emails[e].labels)}
       ELSE {}

\* C39: indexing is idempotent on the vector store: a pass that finds every
\* INBOX message of the user already indexed adds no chunk and does not
\* clear the query cache, and no pass hands to collection.add a message
\* whose chunks are already in the user's collection
C39_IndexIdempotent ==
    [][\A i \in Indexers \cup InlineIndexers :
          /\ (C39_NothingNew(i) /\ ipc'[i] # "read") =>
                (ipc'[i] = "idle" /\ UNCHANGED <<coll, query_cache>>)
          /\ C39_Added(i) \cap coll[collection_name(iuser[i])] = {}]_vars

\* ------------------------------------------------------------------- C40
\* user email addresses, as character sequences
AddrLocals == {<<"a">>, <<"b">>, <<"a", "b">>, <<"a", ".", "b">>, <<"a", "_", "b">>,
               <<"b", ".", "a">>, <<"b", "_", "a">>}
AddrDomains == {<<"x", ".", "c">>, <<"y", ".", "c">>}
Addresses == {l \o <<"@">> \o d : l \in AddrLocals, d \in AddrDomains}

\* str.replace(old, new) for one-character strings
ReplaceChar(str, old, new) == [i \in 1..Len(str) |-> IF str[i] = old THEN new ELSE str[i]]

\* f"emails_inbox_{user_email.replace('@', '_').replace('.', '_')}"
get_collection_name(user_email) ==
    <<"emails_inbox_">> \o ReplaceChar(ReplaceChar(user_email, "@", "_"), ".", "_")

\* the string hybrid_search hashes into its cache key
cache_key_text(user_email, query, sender_filter) ==
    user_email \o <<":">> \o query \o <<":">> \o sender_filter

\* the collection names and the cache-key strings of two users' searches
NameCall(a, b) ==
    /\ cn' = [stage |-> "called", a |-> a, b |-> b,
              na |-> get_collection_name(a), nb |-> get_collection_name(b),
              ka |-> {cache_key_text(a, q, NoFilter) : q \in Queries},
              kb |-> {cache_key_text(b, q, NoFilter) : q \in Queries}]
    /\ UNCHANGED <<smret, tcret, dl>>
    /\ PureUnchangedRest

NameNext == \E a, b \in Addresses : NameCall(a, b)

NameSpec == Init /\ [][NameNext]_vars

\* C40: per-user isolation of retrieval: two distinct user email addresses
\* never share a vector namespace name or a query-cache key, so a search
\* for one user reads only that user's collection and cache entries
C40_DistinctNamespaces ==
    (cn.stage = "called" /\ cn.a # cn.b) =>
        /\ cn.na # cn.nb
        /\ cn.ka \cap cn.kb = {}

====
